---- MODULE Spec2Model ----
(***************************************************************************)
(* A model of the mal interpreter of src/unnamed/part_002 (step 3,         *)
(* environments): tokenizer, reader, environment, evaluator and printer.   *)
(*                                                                         *)
(* Text (lines, tokens, symbol names, string contents) is a sequence of    *)
(* one-character strings.  A node is a record whose "type" field is the    *)
(* C enum name; a chain of nodes linked by ->next is a sequence of nodes.  *)
(* An environment is the sequence of its scopes, outermost first, so the   *)
(* last scope is the environment a call runs in and the scopes before it   *)
(* are reached through ->outer.  calloc/strdup are taken to succeed.       *)
(***************************************************************************)
EXTENDS Integers, Sequences, FiniteSets, TLC

\* ------------------------------------------------------------------------
\* Bounds of the model
\* ------------------------------------------------------------------------
\* largest magnitude of an Integer kept in a variable of the top-level scope
MaxNum == 2
\* largest number of words in a line given to the reader
MaxTokens == 3
\* largest length of a String printed for a round trip
MaxString == 2
\* largest number of elements of a List or Vector printed for a round trip
MaxElements == 2

\* ------------------------------------------------------------------------
\* Program constants
\* ------------------------------------------------------------------------
INT_MAX == 2147483647
INT_MIN == -2147483647 - 1

\* int arithmetic as a two's complement build computes it, without leaving
\* the range of int in an intermediate result
AddWrap(a, b) ==
    IF b > 0 /\ a > INT_MAX - b THEN (a - INT_MAX - 1) + (b - INT_MAX - 1)
    ELSE IF b < 0 /\ a < INT_MIN - b THEN (a + INT_MAX + 1) + (b + INT_MAX + 1)
    ELSE a + b

NegWrap(a) == IF a = INT_MIN THEN INT_MIN ELSE -a

SubWrap(a, b) == IF b = INT_MIN THEN AddWrap(AddWrap(a, INT_MAX), 1) ELSE AddWrap(a, -b)

RECURSIVE MulWrap(_, _)
MulWrap(a, b) ==
    IF b = 0 THEN 0
    ELSE IF b < 0 THEN NegWrap(MulWrap(a, NegWrap(b)))
    ELSE LET h == MulWrap(a, b \div 2)
         IN IF b % 2 = 0 THEN AddWrap(h, h) ELSE AddWrap(a, AddWrap(h, h))

\* C's / on int truncates toward zero; b is neither 0 nor (with a = INT_MIN) -1
TruncDivPos(a, b) ==
    IF a < 0 /\ a % b # 0 THEN (a \div b) + 1 ELSE a \div b

CDiv(a, b) ==
    IF b > 0 THEN TruncDivPos(a, b)
    ELSE IF b = INT_MIN THEN (IF a = INT_MIN THEN 1 ELSE 0)
    ELSE -TruncDivPos(a, -b)

\* ------------------------------------------------------------------------
\* Nodes
\* ------------------------------------------------------------------------
NULL == [type |-> "NULL"]

\* the call did not return: the process died (NULL dereference, unbounded
\* recursion); how names the cause
Abort(how) == [type |-> "ABORT", how |-> how]

IsAbort(n) == n.type = "ABORT"

alloceof == [type |-> "MAL_EOF"]

\* allocerror(result, fmt, ...): fmt is the printf format, arg the text
\* substituted for its %s / %c (<<>> when the format has none)
allocerror(fmt, arg) == [type |-> "MAL_ERROR", message |-> [fmt |-> fmt, arg |-> arg]]

allocnil == [type |-> "MAL_NIL"]

alloctrue == [type |-> "MAL_TRUE"]

allocfalse == [type |-> "MAL_FALSE"]

allocnumber(i) == [type |-> "MAL_NUMBER", number |-> i]

allocsymbol(s) == [type |-> "MAL_SYMBOL", sym |-> s]

\* allockeyword(s, NULL) and allockeyword(s, e) with the text s..e
allockeyword(s) == [type |-> "MAL_KEYWORD", keyword |-> s]

\* allocstring(s, NULL): strdup of an existing string
allocstring_dup(s) == [type |-> "MAL_STRING", string |-> s]

alloclist(elements) == [type |-> "MAL_LIST", list |-> elements]

allocvector(elements) == [type |-> "MAL_VECTOR", list |-> elements]

allochashmap(keys, values) == [type |-> "MAL_HASHMAP", keys |-> keys, values |-> values]

IsError(n) == n.type = "MAL_ERROR"

\* ------------------------------------------------------------------------
\* copy_node
\* ------------------------------------------------------------------------
copy_atom(atom) ==
    CASE atom.type = "NULL" -> NULL
      [] atom.type = "MAL_EOF" -> alloceof
      [] atom.type = "MAL_ERROR" -> [type |-> "MAL_ERROR", message |-> atom.message]
      [] atom.type = "MAL_NIL" -> allocnil
      [] atom.type = "MAL_TRUE" -> alloctrue
      [] atom.type = "MAL_FALSE" -> allocfalse
      [] atom.type = "MAL_NUMBER" -> allocnumber(atom.number)
      [] atom.type = "MAL_SYMBOL" -> allocsymbol(atom.sym)
      [] atom.type = "MAL_KEYWORD" -> allockeyword(atom.keyword)
      [] atom.type = "MAL_STRING" -> allocstring_dup(atom.string)
      [] OTHER -> allocerror("not an atom", <<>>)

RECURSIVE copy_node(_)
RECURSIVE copy_elements_loop(_, _)

\* the while loop of copy_elements: the copies made so far are in acc; the
\* result is the sequence of copies, or the first copy that is an Error
copy_elements_loop(elements, acc) ==
    IF elements = <<>> THEN [error |-> NULL, elements |-> acc]
    ELSE LET element == copy_node(Head(elements))
         IN IF IsError(element) THEN [error |-> element, elements |-> acc]
            ELSE copy_elements_loop(Tail(elements), Append(acc, element))

\* copy_elements(container, dst, elements, copy_node_): an Error, or the
\* sequence to store at *dst
copy_elements(elements) ==
    IF elements = <<>> THEN [error |-> NULL, elements |-> <<>>]
    ELSE IF IsError(Head(elements)) THEN [error |-> Head(elements), elements |-> <<>>]
    ELSE copy_elements_loop(elements, <<>>)

copy_list(list) ==
    LET c == copy_elements(list.list)
    IN IF c.error # NULL THEN c.error ELSE alloclist(c.elements)

copy_vector(vector) ==
    LET c == copy_elements(vector.list)
    IN IF c.error # NULL THEN c.error ELSE allocvector(c.elements)

copy_hashmap(hashmap) ==
    LET k == copy_elements(hashmap.keys)
    IN IF k.error # NULL THEN k.error
       ELSE LET v == copy_elements(hashmap.values)
            IN IF v.error # NULL THEN v.error ELSE allochashmap(k.elements, v.elements)

copy_node(n) ==
    IF n.type = "MAL_LIST" THEN copy_list(n)
    ELSE IF n.type = "MAL_VECTOR" THEN copy_vector(n)
    ELSE IF n.type = "MAL_HASHMAP" THEN copy_hashmap(n)
    ELSE copy_atom(n)

\* ------------------------------------------------------------------------
\* Environments and symbol tables
\* ------------------------------------------------------------------------
\* a scope is env->symbols, a sequence of symbols, the head of the linked
\* list first; the environment running a call is the last scope of the chain
Symbols(env) == env[Len(env)]

Outer(env) == SubSeq(env, 1, Len(env) - 1)

\* the index in a scope of the first symbol of that name and type, 0 if none
FindSymbol(symbols, name, type) ==
    LET found == {i \in 1..Len(symbols) : symbols[i].name = name /\ symbols[i].type = type}
    IN IF found = {} THEN 0 ELSE CHOOSE i \in found : \A j \in found : i <= j

RemoveAt(s, i) == SubSeq(s, 1, i - 1) \o SubSeq(s, i + 1, Len(s))

\* lookup_variable returning the binding of the outermost scope that has one
lookup_variable_outermost(env, name) ==
    LET found == {s \in 1..Len(env) : FindSymbol(env[s], name, "SYM_VARIABLE") # 0}
    IN IF found = {} THEN NULL
       ELSE LET s == CHOOSE s \in found : \A t \in found : s <= t
            IN env[s][FindSymbol(env[s], name, "SYM_VARIABLE")]

RECURSIVE lookup_variable(_, _)
lookup_variable(env, name) ==
    IF env = <<>> THEN NULL
    ELSE LET i == FindSymbol(Symbols(env), name, "SYM_VARIABLE")
         IN IF i # 0 THEN Symbols(env)[i]
            ELSE IF Outer(env) # <<>> THEN lookup_variable(Outer(env), name)
            ELSE NULL

RECURSIVE lookup_function(_, _)
lookup_function(env, name) ==
    IF env = <<>> THEN NULL
    ELSE LET i == FindSymbol(Symbols(env), name, "SYM_FUNCTION")
         IN IF i # 0 THEN Symbols(env)[i]
            ELSE IF Outer(env) # <<>> THEN lookup_function(Outer(env), name)
            ELSE NULL

\* remove_variable leaving the scope as it is
remove_variable_none(env, name) == env

\* remove_variable(env, name): the environment once the first Variable of
\* that name has left the current scope
remove_variable(env, name) ==
    LET i == FindSymbol(Symbols(env), name, "SYM_VARIABLE")
    IN IF i = 0 THEN env
       ELSE [env EXCEPT ![Len(env)] = RemoveAt(Symbols(env), i)]

remove_function(env, name) ==
    LET i == FindSymbol(Symbols(env), name, "SYM_FUNCTION")
    IN IF i = 0 THEN env
       ELSE [env EXCEPT ![Len(env)] = RemoveAt(Symbols(env), i)]

\* add_symbol(env, name, type) links the new symbol in front of env->symbols
add_symbol(env, sym) == [env EXCEPT ![Len(env)] = <<sym>> \o Symbols(env)]

\* add_variable without its call of remove_variable
add_variable_keep(env, name, value_) ==
    LET value == copy_node(value_)
        sym == [type |-> "SYM_VARIABLE", name |-> name, value |-> value]
    IN IF IsError(value) THEN [sym |-> NULL, env |-> env]
       ELSE [sym |-> sym, env |-> add_symbol(env, sym)]

\* add_variable removing the Function of that name too
add_variable_any(env, name, value_) ==
    LET removed == remove_variable(remove_function(env, name), name)
        value == copy_node(value_)
        sym == [type |-> "SYM_VARIABLE", name |-> name, value |-> value]
    IN IF IsError(value) THEN [sym |-> NULL, env |-> removed]
       ELSE [sym |-> sym, env |-> add_symbol(removed, sym)]

\* add_variable(env, name, value_): sym is the new symbol or NULL
add_variable(env, name, value_) ==
    LET removed == remove_variable(env, name)
        value == copy_node(value_)
        sym == [type |-> "SYM_VARIABLE", name |-> name, value |-> value]
    IN IF IsError(value) THEN [sym |-> NULL, env |-> removed]
       ELSE [sym |-> sym, env |-> add_symbol(removed, sym)]

add_function(env, name, nonevalargs, eval) ==
    add_symbol(remove_function(env, name),
               [type |-> "SYM_FUNCTION", name |-> name,
                nonevalargs |-> nonevalargs, eval |-> eval])

\* allocenvironment(outer)
allocenvironment(outer) == Append(outer, <<>>)

\* freeenvironment(env) of the environment a let* made: its outer chain
\* is what remains
freeenvironment(env) == Outer(env)

\* freesymbol(sym) frees the name and the symbol and not sym->u.value: the
\* nodes it leaves allocated
freesymbol(sym) == IF sym.type = "SYM_VARIABLE" THEN <<sym.value>> ELSE <<>>

\* the nodes the loop of freeenvironment(env) leaves allocated, with nothing
\* that points to them
RECURSIVE freesymbols(_)
freesymbols(symbols) ==
    IF symbols = <<>> THEN <<>>
    ELSE freesymbol(Head(symbols)) \o freesymbols(Tail(symbols))

freeenvironment_unreleased(env) == freesymbols(Symbols(env))

\* ------------------------------------------------------------------------
\* Native functions on evaluated arguments (args is the ->next chain)
\* ------------------------------------------------------------------------
RECURSIVE eval_add_loop(_, _)

\* eval_add's loop stepping over an argument that is not a number
eval_add_loop_skip(arg, sum) ==
    IF arg = <<>> THEN allocnumber(sum)
    ELSE IF Head(arg).type # "MAL_NUMBER" THEN eval_add_loop(Tail(arg), sum)
    ELSE eval_add_loop(Tail(arg), AddWrap(sum, Head(arg).number))

eval_add_loop(arg, sum) ==
    IF arg = <<>> THEN allocnumber(sum)
    ELSE IF Head(arg).type # "MAL_NUMBER" THEN allocerror("argument to + not a number", <<>>)
    ELSE eval_add_loop(Tail(arg), AddWrap(sum, Head(arg).number))

eval_add(args) == eval_add_loop(args, 0)

RECURSIVE eval_mul_loop(_, _)
eval_mul_loop(arg, mult) ==
    IF arg = <<>> THEN allocnumber(mult)
    ELSE IF Head(arg).type # "MAL_NUMBER" THEN allocerror("argument to * not a number", <<>>)
    ELSE eval_mul_loop(Tail(arg), MulWrap(mult, Head(arg).number))

eval_mul(args) == eval_mul_loop(args, 1)

RECURSIVE eval_sub_loop(_, _)
eval_sub_loop(arg, remainder) ==
    IF arg = <<>> THEN allocnumber(remainder)
    ELSE IF Head(arg).type # "MAL_NUMBER" THEN allocerror("argument to - not a number", <<>>)
    ELSE eval_sub_loop(Tail(arg), SubWrap(remainder, Head(arg).number))

eval_sub(args) ==
    IF args # <<>>
    THEN IF Head(args).type # "MAL_NUMBER"
         THEN allocerror("first argument to - not a number", <<>>)
         ELSE eval_sub_loop(Tail(args), Head(args).number)
    ELSE eval_sub_loop(args, 0)

RECURSIVE eval_div_loop(_, _)
eval_div_loop(arg, quotient) ==
    IF arg = <<>> THEN allocnumber(quotient)
    ELSE IF Head(arg).type # "MAL_NUMBER"
         THEN allocerror("division by something other than number", <<>>)
    ELSE IF Head(arg).number = 0 THEN allocerror("division by 0", <<>>)
    ELSE IF quotient = INT_MIN /\ Head(arg).number = -1 THEN Abort("integer overflow in /")
    ELSE eval_div_loop(Tail(arg), CDiv(quotient, Head(arg).number))

eval_div(args) ==
    IF args # <<>>
    THEN IF Head(args).type # "MAL_NUMBER"
         THEN allocerror("first argument to / not a number", <<>>)
         ELSE eval_div_loop(Tail(args), Head(args).number)
    ELSE eval_div_loop(args, 0)

\* the relation each of the four comparisons applies to (first, argument)
Rel(op, a, b) ==
    CASE op = "<" -> a < b
      [] op = "<=" -> a <= b
      [] op = ">" -> a > b
      [] op = ">=" -> a >= b

\* the second loop of eval_lt, eval_lteq, eval_gt and eval_gteq
RECURSIVE compare_loop(_, _, _, _)

\* the loop comparing each argument with the one before it
compare_loop_adjacent(arg, first, res, op) ==
    IF arg = <<>> THEN (IF res THEN alloctrue ELSE allocfalse)
    ELSE IF Head(arg).type # "MAL_NUMBER"
         THEN allocerror("comparison by something other than number", <<>>)
    ELSE compare_loop(Tail(arg), Head(arg).number,
                      res /\ Rel(op, first, Head(arg).number), op)

compare_loop(arg, first, res, op) ==
    IF arg = <<>> THEN (IF res THEN alloctrue ELSE allocfalse)
    ELSE IF Head(arg).type # "MAL_NUMBER"
         THEN allocerror("comparison by something other than number", <<>>)
    ELSE compare_loop(Tail(arg), first, res /\ Rel(op, first, Head(arg).number), op)

eval_lt(args) ==
    IF args # <<>>
    THEN IF Head(args).type # "MAL_NUMBER"
         THEN allocerror("first argument to < not a number", <<>>)
         ELSE compare_loop(Tail(args), Head(args).number, TRUE, "<")
    ELSE compare_loop(args, 0, FALSE, "<")

eval_lteq(args) ==
    IF args # <<>>
    THEN IF Head(args).type # "MAL_NUMBER"
         THEN allocerror("first argument to <= not a number", <<>>)
         ELSE compare_loop(Tail(args), Head(args).number, TRUE, "<=")
    ELSE compare_loop(args, 0, FALSE, "<=")

eval_gt(args) ==
    IF args # <<>>
    THEN IF Head(args).type # "MAL_NUMBER"
         THEN allocerror("first argument to > not a number", <<>>)
         ELSE compare_loop(Tail(args), Head(args).number, TRUE, ">")
    ELSE compare_loop(args, 0, FALSE, ">")

eval_gteq(args) ==
    IF args # <<>>
    THEN IF Head(args).type # "MAL_NUMBER"
         THEN allocerror("first argument to >= not a number", <<>>)
         ELSE compare_loop(Tail(args), Head(args).number, TRUE, ">=")
    ELSE compare_loop(args, 0, FALSE, ">=")

\* ------------------------------------------------------------------------
\* =.  eval_eq is an unfinished draft: it compares Lists by walking both to
\* the end of the shorter one without looking at the elements, and after
\* the comparison of each argument it has the statement
\*     res &= first == arg->u.number;
\* in which first is the first argument (a node) and u.number is read of
\* an argument of any type.  What that comparison yields is not fixed by
\* the source: it is the variable below.  nodes_eq and nodes_list_eq are
\* not called by eval_eq.
\* ------------------------------------------------------------------------
VARIABLE first_eq_number

nodes_atom_eq(fst, snd) ==
    CASE fst.type = "MAL_NUMBER" -> fst.number = snd.number
      [] fst.type = "MAL_SYMBOL" -> fst.sym = snd.sym
      [] fst.type = "MAL_KEYWORD" -> fst.keyword = snd.keyword
      [] fst.type = "MAL_STRING" -> fst.string = snd.string
      [] OTHER -> FALSE

\* the do ... while (res && firstlist && arglist) loop of eval_eq: with an
\* empty list res becomes false and continue leaves the loop
RECURSIVE eval_eq_list(_, _, _)
eval_eq_list(res, firstlist, arglist) ==
    IF firstlist = <<>> \/ arglist = <<>> THEN FALSE
    ELSE IF res /\ Tail(firstlist) # <<>> /\ Tail(arglist) # <<>>
         THEN eval_eq_list(res, Tail(firstlist), Tail(arglist))
         ELSE res

\* the if ... else if chain of eval_eq's loop: res after arg was compared
\* with first
eval_eq_compare(res, first, arg) ==
    IF arg.type # first.type THEN FALSE
    ELSE IF arg.type = "MAL_NUMBER" /\ arg.number # first.number THEN FALSE
    ELSE IF arg.type = "MAL_SYMBOL" /\ arg.sym # first.sym THEN FALSE
    ELSE IF arg.type = "MAL_KEYWORD" /\ arg.keyword # first.keyword THEN FALSE
    ELSE IF arg.type = "MAL_STRING" /\ arg.string # first.string THEN FALSE
    ELSE IF arg.type = "MAL_LIST" THEN eval_eq_list(res, first.list, arg.list)
    ELSE res

\* the while (arg) loop of eval_eq
RECURSIVE eval_eq_loop(_, _, _)
eval_eq_loop(res, first, arg) ==
    IF arg = <<>> THEN res
    ELSE eval_eq_loop(eval_eq_compare(res, first, Head(arg)) /\ first_eq_number,
                      first, Tail(arg))

eval_eq(args) ==
    IF args # <<>> /\ eval_eq_loop(TRUE, Head(args), Tail(args))
    THEN alloctrue
    ELSE allocfalse

\* ------------------------------------------------------------------------
\* The evaluator.  An evaluation returns val, the node returned (or Abort),
\* env, the environment chain as the call leaves it, and calls, one record
\* for each function call that returned during it, in order of return.
\* ------------------------------------------------------------------------
Ret(val, env, calls) == [val |-> val, env |-> env, calls |-> calls]

\* eval_def binding the value before it counts its arguments
eval_def_bind_first(env, args) ==
    IF args = <<>> THEN Ret(allocerror("no symbol to define", <<>>), env, <<>>)
    ELSE IF args[1].type # "MAL_SYMBOL" THEN Ret(allocerror("not a symbol", <<>>), env, <<>>)
    ELSE IF Len(args) < 2 THEN Ret(allocerror("symbol value missing", <<>>), env, <<>>)
    ELSE IF Len(args) > 2
         THEN Ret(allocerror("excessive symbol values", <<>>),
                  add_variable(env, args[1].sym, args[2]).env, <<>>)
    ELSE LET var == add_variable(env, args[1].sym, args[2])
         IN IF var.sym = NULL
            THEN Ret(allocerror("unable to define symbol", <<>>), var.env, <<>>)
            ELSE Ret(copy_node(var.sym.value), var.env, <<>>)

eval_def(env, args) ==
    IF args = <<>> THEN Ret(allocerror("no symbol to define", <<>>), env, <<>>)
    ELSE IF args[1].type # "MAL_SYMBOL" THEN Ret(allocerror("not a symbol", <<>>), env, <<>>)
    ELSE IF Len(args) < 2 THEN Ret(allocerror("symbol value missing", <<>>), env, <<>>)
    ELSE IF Len(args) > 2 THEN Ret(allocerror("excessive symbol values", <<>>), env, <<>>)
    ELSE LET var == add_variable(env, args[1].sym, args[2])
         IN IF var.sym = NULL
            THEN Ret(allocerror("unable to define symbol", <<>>), var.env, <<>>)
            ELSE Ret(copy_node(var.sym.value), var.env, <<>>)

\* eval_variable returning a copy of the symbol itself when it is unbound
eval_variable_self(env, name) ==
    LET var == lookup_variable(env, name.sym)
    IN IF var = NULL THEN copy_node(name)
       ELSE copy_node(var.value)

eval_variable(env, name) ==
    LET var == lookup_variable(env, name.sym)
    IN IF var = NULL THEN allocerror("unbound variable '%s'", name.sym)
       ELSE copy_node(var.value)

\* eval_append_element leaving an Error element out of the container
eval_append_element_skip(container, dst, element) ==
    IF element = NULL \/ IsError(element) THEN container
    ELSE [container EXCEPT ![dst] = Append(@, element)]

eval_append_element(container, dst, element) ==
    IF element = NULL THEN container
    ELSE IF IsError(element) THEN element
    ELSE [container EXCEPT ![dst] = Append(@, element)]

eval_atom(atom) == copy_node(atom)

\* the native implementations that neither read nor write the environment
eval_native(eval, args) ==
    CASE eval = "eval_add" -> eval_add(args)
      [] eval = "eval_mul" -> eval_mul(args)
      [] eval = "eval_sub" -> eval_sub(args)
      [] eval = "eval_div" -> eval_div(args)
      [] eval = "eval_lt" -> eval_lt(args)
      [] eval = "eval_gt" -> eval_gt(args)
      [] eval = "eval_lteq" -> eval_lteq(args)
      [] eval = "eval_gteq" -> eval_gteq(args)
      [] eval = "eval_eq" -> eval_eq(args)

RECURSIVE eval_(_, _)
RECURSIVE eval_let_loop(_, _, _)
RECURSIVE eval_function_loop(_, _, _, _, _, _)
RECURSIVE eval_elements_loop(_, _, _, _, _)

\* eval_let's loop evaluating a binding value in the outer environment
eval_let_loop_outer(env, bindings, calls) ==
    IF bindings = <<>> THEN Ret(NULL, env, calls)
    ELSE IF Len(bindings) = 1
         THEN Ret(allocerror("unterminated binding", <<>>), env, calls)
    ELSE IF bindings[1].type # "MAL_SYMBOL"
         THEN Ret(allocerror("can not set binding for non-symbol", <<>>), env, calls)
    ELSE LET value == eval_(Outer(env), bindings[2])
             inner == Append(value.env, Symbols(env))
         IN IF IsAbort(value.val) THEN Ret(value.val, inner, calls \o value.calls)
            ELSE IF IsError(value.val)
            THEN Ret(allocerror("can not evaluate binding value", <<>>),
                     inner, calls \o value.calls)
            ELSE LET var == add_variable(inner, bindings[1].sym, value.val)
                 IN IF var.sym = NULL
                    THEN Ret(allocerror("could not set binding", <<>>),
                             var.env, calls \o value.calls)
                    ELSE eval_let_loop(var.env, SubSeq(bindings, 3, Len(bindings)),
                                       calls \o value.calls)

\* eval_let's loop binding the value in the outer environment
eval_let_loop_bind_outer(env, bindings, calls) ==
    IF bindings = <<>> THEN Ret(NULL, env, calls)
    ELSE IF Len(bindings) = 1
         THEN Ret(allocerror("unterminated binding", <<>>), env, calls)
    ELSE IF bindings[1].type # "MAL_SYMBOL"
         THEN Ret(allocerror("can not set binding for non-symbol", <<>>), env, calls)
    ELSE LET value == eval_(env, bindings[2])
         IN IF IsAbort(value.val) THEN Ret(value.val, value.env, calls \o value.calls)
            ELSE IF IsError(value.val)
            THEN Ret(allocerror("can not evaluate binding value", <<>>),
                     value.env, calls \o value.calls)
            ELSE LET var == add_variable(Outer(value.env), bindings[1].sym, value.val)
                     inner == Append(var.env, Symbols(value.env))
                 IN IF var.sym = NULL
                    THEN Ret(allocerror("could not set binding", <<>>),
                             inner, calls \o value.calls)
                    ELSE eval_let_loop(inner, SubSeq(bindings, 3, Len(bindings)),
                                       calls \o value.calls)

\* one pass of eval_let's loop once value = eval_(env, bindings->next)
\* returned: the binding is added and the loop goes on
eval_let_bind(bindings, calls, value) ==
    IF IsAbort(value.val) THEN Ret(value.val, value.env, calls \o value.calls)
    ELSE IF IsError(value.val)
    THEN Ret(allocerror("can not evaluate binding value", <<>>),
             value.env, calls \o value.calls)
    ELSE LET var == add_variable(value.env, bindings[1].sym, value.val)
         IN IF var.sym = NULL
            THEN Ret(allocerror("could not set binding", <<>>),
                     var.env, calls \o value.calls)
            ELSE eval_let_loop(var.env, SubSeq(bindings, 3, Len(bindings)),
                               calls \o value.calls)

\* the while (bindings) loop of eval_let; env is the inner environment
eval_let_loop(env, bindings, calls) ==
    IF bindings = <<>> THEN Ret(NULL, env, calls)
    ELSE IF Len(bindings) = 1
         THEN Ret(allocerror("unterminated binding", <<>>), env, calls)
    ELSE IF bindings[1].type # "MAL_SYMBOL"
         THEN Ret(allocerror("can not set binding for non-symbol", <<>>), env, calls)
    ELSE eval_let_bind(bindings, calls, eval_(env, bindings[2]))

\* eval_let once result = eval_(env, expr) returned: the inner environment
\* is freed
eval_let_result(bound, result) ==
    Ret(result.val, freeenvironment(result.env), bound.calls \o result.calls)

\* eval_let evaluating the expression also when its loop ended in an Error
eval_let_body_always(args, bound) ==
    IF bound.val # NULL
    THEN Ret(bound.val, freeenvironment(bound.env),
             bound.calls \o eval_(bound.env, args[2]).calls)
    ELSE eval_let_result(bound, eval_(bound.env, args[2]))

\* eval_let once its loop returned: the expression is evaluated in the
\* inner environment unless the loop ended in an Error
eval_let_body(args, bound) ==
    IF bound.val # NULL
    THEN Ret(bound.val, freeenvironment(bound.env), bound.calls)
    ELSE eval_let_result(bound, eval_(bound.env, args[2]))

\* eval_let evaluating the expression in the outer environment
eval_let_body_outer(outer, args) ==
    IF args = <<>> THEN Ret(allocerror("no bindings", <<>>), outer, <<>>)
    ELSE IF args[1].type # "MAL_LIST" /\ args[1].type # "MAL_VECTOR"
         THEN Ret(allocerror("no valid list/vector of bindings", <<>>), outer, <<>>)
    ELSE IF Len(args) < 2
         THEN Ret(allocerror("no expression to evaluate using bindings", <<>>), outer, <<>>)
    ELSE IF Len(args) > 2
         THEN Ret(allocerror("too many expressions to evaluate", <<>>), outer, <<>>)
    ELSE LET bound == eval_let_loop(allocenvironment(outer), args[1].list, <<>>)
         IN IF bound.val # NULL
            THEN Ret(bound.val, freeenvironment(bound.env), bound.calls)
            ELSE LET result == eval_(freeenvironment(bound.env), args[2])
                 IN Ret(result.val, result.env, bound.calls \o result.calls)

eval_let(outer, args) ==
    IF args = <<>> THEN Ret(allocerror("no bindings", <<>>), outer, <<>>)
    ELSE IF args[1].type # "MAL_LIST" /\ args[1].type # "MAL_VECTOR"
         THEN Ret(allocerror("no valid list/vector of bindings", <<>>), outer, <<>>)
    ELSE IF Len(args) < 2
         THEN Ret(allocerror("no expression to evaluate using bindings", <<>>), outer, <<>>)
    ELSE IF Len(args) > 2
         THEN Ret(allocerror("too many expressions to evaluate", <<>>), outer, <<>>)
    ELSE eval_let_body(args, eval_let_loop(allocenvironment(outer), args[1].list, <<>>))

\* the while (args) loop of eval_function: val is NULL and args the
\* evaluated list, or val is the Error that ended the loop
eval_function_element(args, i, nonevalargs, evallist, calls, element) ==
    IF IsError(element.val) \/ IsAbort(element.val)
    THEN [val |-> element.val, args |-> <<>>, env |-> element.env,
          calls |-> calls \o element.calls]
    ELSE eval_function_loop(element.env, Tail(args), i + 1, nonevalargs,
                            Append(evallist, element.val),
                            calls \o element.calls)

\* eval_function's loop evaluating every argument, the first nonevalargs too
eval_function_loop_all(env, args, i, nonevalargs, evallist, calls) ==
    IF args = <<>> THEN [val |-> NULL, args |-> evallist, env |-> env, calls |-> calls]
    ELSE eval_function_element(args, i, nonevalargs, evallist, calls,
                               eval_(env, Head(args)))

eval_function_loop(env, args, i, nonevalargs, evallist, calls) ==
    IF args = <<>> THEN [val |-> NULL, args |-> evallist, env |-> env, calls |-> calls]
    ELSE eval_function_element(args, i, nonevalargs, evallist, calls,
                               IF i < nonevalargs
                               THEN Ret(copy_node(Head(args)), env, <<>>)
                               ELSE eval_(env, Head(args)))

\* eval_function once func->u.func.eval returned result (or the loop ended
\* in the Error evald.val): the call is added to the log of calls
eval_function_return(env, list, evald, result) ==
    Ret(result.val, result.env,
        evald.calls \o result.calls \o
        <<[name |-> Head(list.list).sym, form |-> list, ran |-> evald.val = NULL,
           args |-> evald.args, before |-> env,
           val |-> result.val, after |-> result.env]>>)

\* eval_function once its loop returned evald: return func->u.func.eval(env, args)
eval_function_call(env, list, func, evald) ==
    eval_function_return(env, list, evald,
        IF evald.val # NULL THEN Ret(evald.val, evald.env, <<>>)
        ELSE IF func.eval = "eval_def" THEN eval_def(evald.env, evald.args)
        ELSE IF func.eval = "eval_let" THEN eval_let(evald.env, evald.args)
        ELSE Ret(eval_native(func.eval, evald.args), evald.env, <<>>))

eval_function_found(env, list, func) ==
    IF func = NULL THEN Ret(allocerror("function not found", <<>>), env, <<>>)
    ELSE eval_function_call(env, list, func,
             eval_function_loop(env, Tail(list.list), 0, func.nonevalargs, <<>>, <<>>))

eval_function(env, list) ==
    eval_function_found(env, list, lookup_function(env, Head(list.list).sym))

\* the while (element) loop of eval_list, eval_vector and eval_hashmap
eval_elements_append(dst, element, calls, e, appended) ==
    IF IsError(appended) THEN Ret(appended, e.env, calls \o e.calls)
    ELSE eval_elements_loop(e.env, appended, dst, Tail(element), calls \o e.calls)

\* the loop going on to the elements behind one that evaluated to an Error
\* before it returns that Error
eval_elements_element_on(result, dst, element, calls, e) ==
    IF IsAbort(e.val) THEN Ret(e.val, e.env, calls \o e.calls)
    ELSE IF IsError(e.val)
    THEN Ret(e.val,
             eval_elements_loop(e.env, result, dst, Tail(element), calls \o e.calls).env,
             eval_elements_loop(e.env, result, dst, Tail(element), calls \o e.calls).calls)
    ELSE eval_elements_append(dst, element, calls, e,
                              eval_append_element(result, dst, e.val))

eval_elements_element(result, dst, element, calls, e) ==
    IF IsAbort(e.val) THEN Ret(e.val, e.env, calls \o e.calls)
    ELSE eval_elements_append(dst, element, calls, e,
                              eval_append_element(result, dst, e.val))

eval_elements_loop(env, result, dst, element, calls) ==
    IF element = <<>> THEN Ret(result, env, calls)
    ELSE eval_elements_element(result, dst, element, calls, eval_(env, Head(element)))

eval_list(env, list) ==
    LET first == list.list
    IN IF /\ first # <<>>
          /\ Head(first).type = "MAL_SYMBOL"
          /\ lookup_function(env, Head(first).sym) # NULL
       THEN eval_function(env, list)
       ELSE eval_elements_loop(env, alloclist(<<>>), "list", first, <<>>)

eval_vector(env, vector) ==
    eval_elements_loop(env, allocvector(<<>>), "list", vector.list, <<>>)

\* keys = copy_node(hashmap->u.hash.keys) copies the first key only, and
\* keys->type is read without a NULL test
eval_hashmap(env, hashmap) ==
    IF hashmap.keys = <<>> THEN Ret(Abort("NULL dereference"), env, <<>>)
    ELSE LET keys == copy_node(Head(hashmap.keys))
         IN IF IsError(keys) THEN Ret(Abort("use after free"), env, <<>>)
            ELSE eval_elements_loop(env, allochashmap(<<keys>>, <<>>), "values",
                                    hashmap.values, <<>>)

eval_(env, n) ==
    IF n.type = "MAL_LIST" THEN eval_list(env, n)
    ELSE IF n.type = "MAL_VECTOR" THEN eval_vector(env, n)
    ELSE IF n.type = "MAL_HASHMAP" THEN eval_hashmap(env, n)
    ELSE IF n.type = "MAL_SYMBOL" THEN Ret(eval_variable(env, n), env, <<>>)
    ELSE Ret(eval_atom(n), env, <<>>)

eval(env, n) == eval_(env, n)

\* ------------------------------------------------------------------------
\* The tokenizer.  A line is the sequence of its characters; the tokenizers
\* return how many characters of the line their token takes, 0 for none.
\* ------------------------------------------------------------------------
\* the characters 0x60 (backquote) and 0x0b (vertical tab), which a TLA+
\* string cannot hold, are the strings below
backquote == "0x60"

vtab == "0x0b"

whitecomma == {" ", "\t", vtab, "\r", "\n", ","}

special == {"[", "]", "{", "}", "(", ")", "'", backquote, "~", "^", "@"}

\* the characters that end a keyword or a symbol
notallowed == {" ", "\t", vtab, "\r", "\n", "[", "]", "{", "}", "(", ")", "'", "\"",
               backquote, ",", ";"}

Drop(line, n) == SubSeq(line, n + 1, Len(line))

Take(line, n) == SubSeq(line, 1, n)

\* the length of the longest prefix of the line with characters in chars
RECURSIVE Span(_, _)
Span(line, chars) ==
    IF line # <<>> /\ Head(line) \in chars THEN 1 + Span(Tail(line), chars) ELSE 0

\* the length of the longest prefix of the line with no character in chars
RECURSIVE CSpan(_, _)
CSpan(line, chars) ==
    IF line # <<>> /\ Head(line) \notin chars THEN 1 + CSpan(Tail(line), chars) ELSE 0

read_whitecomma(line) == Drop(line, Span(line, whitecomma))

read_comment(line) == IF Head(line) # ";" THEN 0 ELSE Len(line)

tokenize_spliceunquote(line) ==
    IF Len(line) >= 2 /\ line[1] = "~" /\ line[2] = "@" THEN 2 ELSE 0

tokenize_keyword(line) ==
    IF Head(line) # ":" THEN 0 ELSE 1 + CSpan(Tail(line), notallowed)

tokenize_special(line) == IF Head(line) \in special THEN 1 ELSE 0

\* the token ends at the first double quote after the opening one that does
\* not follow a backslash; with no such quote it is the rest of the line
tokenize_string(line) ==
    IF Head(line) # "\"" THEN 0
    ELSE LET closing == {i \in 2..Len(line) : line[i] = "\"" /\ line[i - 1] # "\\"}
         IN IF closing = {} THEN Len(line)
            ELSE CHOOSE i \in closing : \A j \in closing : i <= j

\* tokenize_symbol with the single quote missing from notallowed
tokenize_symbol_quote(line) == CSpan(line, notallowed \ {"'"})

tokenize_symbol(line) == CSpan(line, notallowed)

\* what tokenizer returns: the NULL-terminated array of tokens, or NULL
Tokens(tokens) == [null |-> FALSE, tokens |-> tokens]

NoTokens == [null |-> TRUE, tokens |-> <<>>]

\* the while loop of tokenizer: NULL when no tokenizer takes the character
RECURSIVE tokenizer_loop(_, _)
tokenizer_loop(line0, tokens) ==
    LET line == read_whitecomma(line0)
    IN IF line = <<>> THEN Tokens(tokens)
       ELSE IF read_comment(line) > 0 THEN Tokens(tokens)
       ELSE LET n == IF tokenize_spliceunquote(line) > 0 THEN tokenize_spliceunquote(line)
                     ELSE IF tokenize_keyword(line) > 0 THEN tokenize_keyword(line)
                     ELSE IF tokenize_special(line) > 0 THEN tokenize_special(line)
                     ELSE IF tokenize_string(line) > 0 THEN tokenize_string(line)
                     ELSE tokenize_symbol(line)
            IN IF n = 0 THEN NoTokens
               ELSE tokenizer_loop(Drop(line, n), Append(tokens, Take(line, n)))

tokenizer(line) == tokenizer_loop(line, <<>>)

\* ------------------------------------------------------------------------
\* The reader.  The cursor char ***tokens is the pair of the token array and
\* the index of the current token; index Len(tokens) + 1 is the NULL that
\* ends the array.  A read returns the node (NULL, an Error or Abort
\* included) and the index the cursor was left at.
\* ------------------------------------------------------------------------
Digits == <<"0", "1", "2", "3", "4", "5", "6", "7", "8", "9">>

DigitValue(c) == (CHOOSE i \in 1..10 : Digits[i] = c) - 1

IsDigit(c) == \E i \in 1..10 : Digits[i] = c

Read(node, pos) == [node |-> node, pos |-> pos]

\* allocstring(s, e): dst is never advanced, so every character read is
\* stored in the first byte of the zeroed buffer
RECURSIVE allocstring_loop(_, _)
allocstring_loop(src, string) ==
    IF src = <<>> THEN allocstring_dup(string)
    ELSE IF Head(src) # "\\" THEN allocstring_loop(Tail(src), <<Head(src)>>)
    ELSE IF Tail(src) = <<>>
         THEN allocerror("unterminated escape sequence at end of string", <<>>)
    ELSE IF src[2] \in {"\\", "\n", "\""} THEN allocstring_loop(Drop(src, 2), <<src[2]>>)
    ELSE allocerror("unknown escape sequence '%c' in string", <<src[2]>>)

allocstring(s) == allocstring_loop(s, <<>>)

read_keyword(tokens, pos) ==
    LET begin == Tail(tokens[pos])
    IN IF begin = <<>> THEN Read(allocerror("keyword terminated too early", <<>>), pos)
       ELSE Read(allockeyword(begin), pos + 1)

read_string(tokens, pos) ==
    LET begin == Tail(tokens[pos])
    IN IF Len(begin) < 1 THEN Read(allocerror("unterminated string", <<>>), pos)
       ELSE IF begin[Len(begin)] # "\""
       THEN Read(allocerror("string can not be terminated by '%c'", <<begin[Len(begin)]>>), pos)
       ELSE LET result == allocstring(Take(begin, Len(begin) - 1))
            IN Read(result, IF IsError(result) THEN pos ELSE pos + 1)

\* val = val * 10 + (*c - '0') over the digits
RECURSIVE read_number_loop(_, _)
read_number_loop(c, val) ==
    IF c = <<>> THEN val
    ELSE \* v is the new val, computed before the loop goes on
         CHOOSE r \in {read_number_loop(Tail(c), v) :
                          v \in {AddWrap(MulWrap(val, 10), DigitValue(Head(c)))}} : TRUE

\* NULL when the token is not a number
read_number(token) ==
    LET negative == Head(token) = "-"
        c == IF Head(token) \in {"+", "-"} THEN Tail(token) ELSE token
    IN IF c = <<>> THEN NULL
       ELSE IF \E i \in 1..Len(c) : ~IsDigit(c[i]) THEN NULL
       ELSE LET val == read_number_loop(c, 0)
            IN allocnumber(IF negative THEN NegWrap(val) ELSE val)

read_atom(tokens, pos) ==
    IF pos > Len(tokens) THEN Read(allocerror("no token to read", <<>>), pos)
    ELSE LET token == tokens[pos]
             result == IF token = <<"n", "i", "l">> THEN allocnil
                       ELSE IF token = <<"t", "r", "u", "e">> THEN alloctrue
                       ELSE IF token = <<"f", "a", "l", "s", "e">> THEN allocfalse
                       ELSE read_number(token)
         IN IF result = NULL /\ Len(token) > 0 THEN Read(allocsymbol(token), pos + 1)
            ELSE IF result = NULL THEN Read(allocerror("token of unknown type", <<>>), pos)
            ELSE Read(result, pos + 1)

read_prepend_element(container, dst, element) ==
    IF element = NULL THEN container
    ELSE IF IsError(element) THEN element
    ELSE [container EXCEPT ![dst] = <<element>> \o @]

read_append_element(container, dst, element) ==
    IF element = NULL THEN container
    ELSE IF IsError(element) THEN element
    ELSE [container EXCEPT ![dst] = Append(@, element)]

RECURSIVE read_form_(_, _)
RECURSIVE read_elements_loop(_, _, _, _, _)

read_quote(quote, tokens, pos) ==
    LET form == read_form_(tokens, pos + 1)
    IN IF IsAbort(form.node) THEN form
       ELSE LET result == read_prepend_element(alloclist(<<>>), "list", form.node)
            IN IF IsError(result) THEN Read(result, form.pos)
               ELSE Read(read_prepend_element(result, "list", allocsymbol(quote)), form.pos)

\* read_metadata calls read_form_ on the cursor it was given, which still
\* is at the ^ token: the recursion has no end
read_metadata(tokens, pos) == Read(Abort("unbounded recursion"), pos)

\* the while loops of read_list, read_vector and read_hashmap: the forms up
\* to the token closer or the end of the tokens are appended to the
\* container, for a hashmap to its keys and its values in turn
read_elements_loop(tokens, pos, closer, result, key) ==
    IF pos > Len(tokens) \/ tokens[pos] = <<closer>> THEN [node |-> result, pos |-> pos, key |-> key]
    ELSE LET form == read_form_(tokens, pos)
         IN IF IsAbort(form.node) THEN [node |-> form.node, pos |-> form.pos, key |-> key]
            ELSE LET appended ==
                        read_append_element(result,
                            IF result.type # "MAL_HASHMAP" THEN "list"
                            ELSE IF key THEN "keys" ELSE "values",
                            form.node)
                 IN IF IsError(appended) THEN [node |-> appended, pos |-> form.pos, key |-> key]
                    ELSE read_elements_loop(tokens, form.pos, closer, appended, ~key)

read_hashmap(tokens, pos) ==
    LET read == read_elements_loop(tokens, pos + 1, "}", allochashmap(<<>>, <<>>), TRUE)
    IN IF IsError(read.node) \/ IsAbort(read.node) THEN Read(read.node, read.pos)
       ELSE IF read.pos > Len(tokens)
       THEN Read(allocerror("unterminated hashmap", <<>>), read.pos)
       ELSE IF tokens[read.pos] # <<"}">>
       THEN Read(allocerror("expected '}', got '%s'", tokens[read.pos]), read.pos)
       ELSE IF ~read.key
       THEN Read(allocerror("last keyword in hashmap lacks value", <<>>), read.pos)
       ELSE Read(read.node, read.pos + 1)

read_list(tokens, pos) ==
    LET read == read_elements_loop(tokens, pos + 1, ")", alloclist(<<>>), TRUE)
    IN IF IsError(read.node) \/ IsAbort(read.node) THEN Read(read.node, read.pos)
       ELSE IF read.pos > Len(tokens)
       THEN Read(allocerror("unterminated list", <<>>), read.pos)
       ELSE IF tokens[read.pos] # <<")">>
       THEN Read(allocerror("expected ')', got '%s'", tokens[read.pos]), read.pos)
       ELSE Read(read.node, read.pos + 1)

read_vector(tokens, pos) ==
    LET read == read_elements_loop(tokens, pos + 1, "]", allocvector(<<>>), TRUE)
    IN IF IsError(read.node) \/ IsAbort(read.node) THEN Read(read.node, read.pos)
       ELSE IF read.pos > Len(tokens)
       THEN Read(allocerror("unterminated vector", <<>>), read.pos)
       ELSE IF tokens[read.pos] # <<"]">>
       THEN Read(allocerror("expected ']', got '%s'", tokens[read.pos]), read.pos)
       ELSE Read(read.node, read.pos + 1)

\* tokens is the array the cursor runs over, which is not NULL here
read_form_(tokens, pos) ==
    IF pos > Len(tokens) THEN Read(NULL, pos)
    ELSE LET token == tokens[pos]
         IN IF token = <<"~", "@">>
            THEN read_quote(<<"s", "p", "l", "i", "t", "e", "-", "u", "n", "q", "u", "o", "t", "e">>,
                            tokens, pos)
            ELSE IF token = <<"'">> THEN read_quote(<<"q", "u", "o", "t", "e">>, tokens, pos)
            ELSE IF token = <<backquote>>
            THEN read_quote(<<"q", "u", "a", "s", "i", "q", "u", "o", "t", "e">>, tokens, pos)
            ELSE IF token = <<"~">>
            THEN read_quote(<<"u", "n", "q", "u", "o", "t", "e">>, tokens, pos)
            ELSE IF token = <<"@">> THEN read_quote(<<"d", "e", "r", "e", "f">>, tokens, pos)
            ELSE IF token = <<"^">> THEN read_metadata(tokens, pos)
            ELSE IF token = <<"{">> THEN read_hashmap(tokens, pos)
            ELSE IF token = <<"(">> THEN read_list(tokens, pos)
            ELSE IF token = <<"[">> THEN read_vector(tokens, pos)
            ELSE IF Head(token) = ":" THEN read_keyword(tokens, pos)
            ELSE IF Head(token) = "\"" THEN read_string(tokens, pos)
            ELSE read_atom(tokens, pos)

\* read_form(tokens) with read_form_'s test of a NULL array
read_form(tokens) ==
    IF tokens.null THEN alloceof ELSE read_form_(tokens.tokens, 1).node

\* parse(line) for a line that is not NULL
parse(line) == read_form(tokenizer(line))

\* ------------------------------------------------------------------------
\* The printer.  A print returns out, the characters written to stdout, and
\* eof, the value print_ returns.  An Error is written as its format, one
\* item of the output, and the text substituted in it.
\* ------------------------------------------------------------------------
\* printf("%d", i)
RECURSIVE print_digits(_)
print_digits(i) ==
    IF i < 10 THEN <<Digits[i + 1]>>
    ELSE Append(print_digits(i \div 10), Digits[(i % 10) + 1])

print_number(i) ==
    IF i >= 0 THEN print_digits(i)
    ELSE IF i = INT_MIN THEN <<"-", "2", "1", "4", "7", "4", "8", "3", "6", "4", "8">>
    ELSE <<"-">> \o print_digits(-i)

RECURSIVE print_string(_, _)
print_string(string, readably) ==
    IF string = <<>> THEN <<>>
    ELSE (IF readably /\ Head(string) = "\\" THEN <<"\\", "\\">>
          ELSE IF readably /\ Head(string) = "\n" THEN <<"\\", "n">>
          ELSE IF readably /\ Head(string) = "\"" THEN <<"\\", "\"">>
          ELSE <<Head(string)>>)
         \o print_string(Tail(string), readably)

Printed(out, eof) == [out |-> out, eof |-> eof]

RECURSIVE print_(_, _, _)
RECURSIVE print_elements(_, _, _, _, _)
RECURSIVE print_pairs(_, _, _, _, _, _)

\* the while (n) loops of MAL_LIST and MAL_VECTOR; eof || print_(...) does
\* not print an element once eof is true
print_elements(n, readably, level, out, eof) ==
    IF n = <<>> THEN Printed(out, eof)
    ELSE LET element == IF eof THEN Printed(<<>>, TRUE)
                        ELSE print_(Head(n), readably, level + 1)
         IN print_elements(Tail(n), readably, level,
                           out \o element.out \o (IF Tail(n) # <<>> THEN <<" ">> ELSE <<>>),
                           eof \/ element.eof)

\* the while (k && v) loop of MAL_HASHMAP
print_pairs(k, v, readably, level, out, eof) ==
    IF k = <<>> \/ v = <<>> THEN Printed(out, eof)
    ELSE LET key == IF eof THEN Printed(<<>>, TRUE)
                    ELSE print_(Head(k), readably, level + 1)
             value == IF eof \/ key.eof THEN Printed(<<>>, TRUE)
                      ELSE print_(Head(v), readably, level + 1)
         IN print_pairs(Tail(k), Tail(v), readably, level,
                        out \o key.out \o <<" ">> \o value.out
                            \o (IF Tail(k) # <<>> THEN <<" ">> ELSE <<>>),
                        eof \/ key.eof \/ value.eof)

print_(n, readably, level) ==
    IF n = NULL THEN Printed(<<>>, FALSE)
    ELSE LET body ==
                CASE n.type = "MAL_EOF" -> Printed(<<>>, TRUE)
                  [] n.type = "MAL_ERROR" -> Printed(<<n.message.fmt>> \o n.message.arg, FALSE)
                  [] n.type = "MAL_NIL" -> Printed(<<"n", "i", "l">>, FALSE)
                  [] n.type = "MAL_TRUE" -> Printed(<<"t", "r", "u", "e">>, FALSE)
                  [] n.type = "MAL_FALSE" -> Printed(<<"f", "a", "l", "s", "e">>, FALSE)
                  [] n.type = "MAL_NUMBER" -> Printed(print_number(n.number), FALSE)
                  [] n.type = "MAL_SYMBOL" -> Printed(n.sym, FALSE)
                  [] n.type = "MAL_KEYWORD" -> Printed(<<":">> \o n.keyword, FALSE)
                  [] n.type = "MAL_STRING" ->
                        Printed((IF readably THEN <<"\"">> ELSE <<>>)
                                \o print_string(n.string, readably)
                                \o (IF readably THEN <<"\"">> ELSE <<>>), FALSE)
                  [] n.type = "MAL_LIST" ->
                        LET e == print_elements(n.list, readably, level, <<"(">>, FALSE)
                        IN Printed(Append(e.out, ")"), e.eof)
                  [] n.type = "MAL_VECTOR" ->
                        LET e == print_elements(n.list, readably, level, <<"[">>, FALSE)
                        IN Printed(Append(e.out, "]"), e.eof)
                  [] n.type = "MAL_HASHMAP" ->
                        LET e == print_pairs(n.keys, n.values, readably, level, <<"{">>, FALSE)
                        IN Printed(Append(e.out, "}"), e.eof)
         IN Printed(body.out \o (IF level = 0 THEN <<"\n">> ELSE <<>>), body.eof)

print(n) == print_(n, TRUE, 0)

\* ------------------------------------------------------------------------
\* The initial environment
\* ------------------------------------------------------------------------
n_def == <<"d", "e", "f", "!">>
n_let == <<"l", "e", "t", "*">>
n_add == <<"+">>
n_mul == <<"*">>
n_sub == <<"-">>
n_div == <<"/">>
n_lt == <<"<">>
n_gt == <<">">>
n_lteq == <<"<", "=">>
n_gteq == <<">", "=">>
n_eq == <<"=">>

initial_environment ==
    LET e0 == allocenvironment(<<>>)
        e1 == add_function(e0, n_def, 1, "eval_def")
        e2 == add_function(e1, n_let, 2, "eval_let")
        e3 == add_function(e2, n_add, 0, "eval_add")
        e4 == add_function(e3, n_mul, 0, "eval_mul")
        e5 == add_function(e4, n_sub, 0, "eval_sub")
        e6 == add_function(e5, n_div, 0, "eval_div")
        e7 == add_function(e6, n_lt, 0, "eval_lt")
        e8 == add_function(e7, n_gt, 0, "eval_gt")
        e9 == add_function(e8, n_lteq, 0, "eval_lteq")
        e10 == add_function(e9, n_gteq, 0, "eval_gteq")
    IN add_function(e10, n_eq, 0, "eval_eq")

\* ------------------------------------------------------------------------
\* The forms the repl model evaluates
\* ------------------------------------------------------------------------
Num(i) == allocnumber(i)
Sym(s) == allocsymbol(s)
Str(s) == allocstring_dup(s)
Kw(s) == allockeyword(s)
L(elements) == alloclist(elements)
V(elements) == allocvector(elements)

x == Sym(<<"x">>)
y == Sym(<<"y">>)
z == Sym(<<"z">>)
str_a == Str(<<"a">>)
kw_k == Kw(<<"k">>)

Call1(f, a) == L(<<Sym(f), a>>)
Call2(f, a, b) == L(<<Sym(f), a, b>>)
Call3(f, a, b, c) == L(<<Sym(f), a, b, c>>)

NumericNames == {n_add, n_mul, n_sub, n_div, n_lt, n_gt, n_lteq, n_gteq}

AtomForms == {Num(0), Num(1), Num(2), x, y, z, str_a, kw_k, allocnil,
              alloctrue, allocfalse, Sym(n_add), Sym(n_def)}

ArgForms == {Num(0), Num(2), x, str_a}

NumericForms ==
    {L(<<Sym(f)>>) : f \in NumericNames}
    \cup {Call1(f, a) : f \in NumericNames, a \in ArgForms}
    \cup {Call2(f, a, b) : f \in NumericNames, a \in ArgForms, b \in ArgForms}
    \cup {Call3(f, a, b, c) : f \in {n_div, n_lt},
                              a \in {Num(2), str_a},
                              b \in {Num(0), Num(1), str_a},
                              c \in {Num(0), z}}
    \cup {Call1(n_sub, Num(5)), Call2(n_div, Num(1), Num(0)),
          Call2(n_div, Num(0), Num(1)), Call2(n_add, Num(1), Num(2))}

DefValueForms == {Num(0), Num(1), x, y, z, str_a,
                  Call2(n_add, x, Num(1)), Call2(n_add, y, Num(1)), Call2(n_sub, y, Num(1)),
                  Call2(n_div, Num(1), Num(0)), L(<<Num(1), str_a>>)}

DefForms ==
    {Call2(n_def, n, v) : n \in {x, y}, v \in DefValueForms}
    \cup {L(<<Sym(n_def)>>), Call1(n_def, x), Call2(n_def, Num(1), Num(2)),
          Call2(n_def, str_a, x), Call3(n_def, x, Num(1), Num(2)),
          Call3(n_def, x, Num(1), Call2(n_def, x, Num(2)))}

LetBodyForms == {x, y, Call2(n_add, x, y), Call2(n_def, y, x),
                 Call2(n_def, x, Num(2)), Call2(n_def, z, Num(1)),
                 Call2(n_div, x, Num(0)),
                 Call2(n_let, L(<<y, x>>), Call2(n_def, x, Call2(n_add, y, Num(1))))}

LetForms ==
    {Call2(n_let, b, body) :
        b \in {L(<<>>), L(<<x, Num(1)>>), L(<<x, y>>), V(<<x, Num(2)>>),
               L(<<x, Num(1), y, Call2(n_add, x, Num(1))>>),
               L(<<x, Num(2), y, Call2(n_add, x, Num(2))>>),
               L(<<y, Call2(n_add, x, Num(1)), x, Num(1)>>),
               L(<<x, Call2(n_def, y, Num(1))>>),
               L(<<x, Num(1), x, Call2(n_add, x, x)>>),
               L(<<x>>), L(<<Num(1), Num(2)>>), L(<<x, Num(1), y>>),
               L(<<x, Call2(n_div, Num(1), Num(0))>>),
               Num(1), x, allochashmap(<<kw_k>>, <<Num(1)>>)},
        body \in LetBodyForms}
    \cup {L(<<Sym(n_let)>>), Call1(n_let, L(<<x, Num(1)>>)),
          Call3(n_let, L(<<x, Num(1)>>), x, x),
          Call3(n_let, L(<<x, Num(1)>>), x, Call2(n_def, y, Num(2))),
          Call3(n_let, L(<<x, Num(1)>>), Call2(n_def, z, Num(1)), Call2(n_def, y, Num(2))),
          Call3(n_let, L(<<>>), Num(1), Call2(n_def, x, Num(1)))}

ContainerForms ==
    {L(<<>>), L(<<Num(1), x>>), L(<<x, Call2(n_def, x, Num(1)), x>>),
     L(<<z, Call2(n_def, x, Num(1))>>), L(<<Call2(n_def, y, Num(2)), z>>),
     V(<<>>), V(<<x, Call2(n_add, x, Num(1))>>), V(<<Call2(n_def, x, Num(0)), z>>),
     Call2(n_add, Call2(n_def, x, Num(1)), x),
     Call2(n_add, Call2(n_def, x, Num(1)), z),
     Call2(n_add, z, Call2(n_def, x, Num(1))),
     allochashmap(<<>>, <<>>), allochashmap(<<kw_k>>, <<x>>),
     allochashmap(<<kw_k>>, <<Call2(n_def, x, Num(2))>>),
     allochashmap(<<kw_k, str_a>>, <<x, Num(1)>>),
     allochashmap(<<kw_k, str_a>>, <<Num(2), Num(1)>>),
     allochashmap(<<L(<<Sym(n_def), x, Num(1)>>)>>, <<Num(1)>>)}

EqForms ==
    {L(<<Sym(n_eq)>>), Call1(n_eq, Num(1)),
     Call2(n_eq, Num(1), Num(1)), Call2(n_eq, Num(1), Num(2)),
     Call2(n_eq, Num(1), Str(<<"1">>)), Call2(n_eq, str_a, str_a),
     Call2(n_eq, x, Num(1)), Call3(n_eq, Num(1), Num(1), Num(2)),
     Call2(n_eq, L(<<>>), L(<<>>)),
     Call2(n_eq, L(<<Num(1), Num(2)>>), L(<<Num(1), Num(2)>>)),
     Call2(n_eq, L(<<Num(1), Num(2)>>), L(<<Num(1), Num(0)>>)),
     Call2(n_eq, L(<<Num(1), Num(2)>>), L(<<Num(1)>>))}

\* comparisons of three Integers, in and out of order
ComparisonForms ==
    {Call3(f, Num(t[1]), Num(t[2]), Num(t[3])) :
        f \in {n_lt, n_lteq, n_gt, n_gteq},
        t \in {<<1, 3, 2>>, <<2, 0, 1>>, <<1, 1, 1>>, <<1, 2, 3>>, <<2, 1, 2>>}}

\* forms that bind the name of the Function + as a Variable and use both
FunctionNameForms ==
    {Call2(n_def, Sym(n_add), Num(1)),
     Call2(n_add, Sym(n_add), Num(1)),
     Call2(n_let, L(<<Sym(n_add), Num(2)>>), Call2(n_add, Sym(n_add), Num(1))),
     Call2(n_let, L(<<x, Call2(n_def, Sym(n_lt), Num(2))>>), Call2(n_lt, x, Sym(n_lt)))}

\* the forms evaluated once + is bound as a Variable
AfterFunctionNameForms ==
    FunctionNameForms
    \cup {Sym(n_add), x, L(<<Sym(n_add)>>), Call2(n_add, Num(1), Num(2)),
          Call2(n_add, x, Num(1)), Call2(n_def, x, Num(1)),
          Call2(n_def, x, Call2(n_add, Sym(n_add), Num(1))),
          V(<<Sym(n_add), Call2(n_add, Sym(n_add), Sym(n_add))>>)}

\* the decimal digits of 2^31, the Integer behind INT_MAX
Int32Digits == <<"2", "1", "4", "7", "4", "8", "3", "6", "4", "8">>

\* sums and differences at the ends of the range of int
WideForms ==
    {Call2(n_add, Num(INT_MAX), Num(1)), Call2(n_sub, Num(INT_MIN), Num(1)),
     Call2(n_add, Num(INT_MAX - 1), Num(1))}

\* lines that read as nothing, as an Error, as an Integer that does not fit
\* an int, or that the reader dies on
ReplLines ==
    {<<>>, <<" ", ",">>, <<";", "c">>, <<"(">>, <<"(", "1", "]">>, <<"\"">>,
     <<"^", "1">>, <<"x">>, Int32Digits}

\* what reed returns for those lines
ReadNodes == {parse(l) : l \in ReplLines}

Forms ==
    AtomForms \cup NumericForms \cup DefForms \cup LetForms \cup ContainerForms
    \cup EqForms \cup AfterFunctionNameForms \cup WideForms \cup ComparisonForms

\* ------------------------------------------------------------------------
\* The repl: while (!print(eval(env, reed(PROMPT))));
\* ------------------------------------------------------------------------
VARIABLES
    pc,       \* "read": at reed; "print": eval returned; "done": left the loop
    env,      \* the top-level environment of repl()
    before,   \* env when the last evaluation began
    form,     \* the node the last evaluation was given
    result,   \* the node it returned
    calls,    \* the function calls that returned during it
    value,    \* the node a round trip printed, NULL when there is none
    line,     \* the line given to the tokenizer
    tokens    \* the tokens the tokenizer returned

vars == <<pc, env, before, form, result, calls, value, line, tokens, first_eq_number>>

\* a value small enough to be kept in the model's environment
RECURSIVE Small(_)
Small(n) ==
    CASE n.type = "MAL_NUMBER" -> n.number \in -MaxNum..MaxNum
      [] n.type \in {"MAL_LIST", "MAL_VECTOR"} ->
            Len(n.list) <= 2 /\ \A i \in 1..Len(n.list) : Small(n.list[i])
      [] n.type = "MAL_HASHMAP" -> FALSE
      [] OTHER -> TRUE

SmallEnv(e) ==
    \A s \in 1..Len(e) : \A i \in 1..Len(e[s]) :
        e[s][i].type = "SYM_VARIABLE" => Small(e[s][i].value)

Init ==
    /\ pc = "read"
    /\ env = initial_environment
    /\ before = initial_environment
    /\ form = NULL
    /\ result = NULL
    /\ calls = <<>>
    /\ value = NULL
    /\ line = <<>>
    /\ tokens = Tokens(<<>>)
    /\ first_eq_number \in BOOLEAN

\* reed returned the node n and eval(env, n) ran, or reed did not return
\* (the node Abort).  Only a call of = reads first_eq_number: the other
\* forms are evaluated once, with FALSE.  Once + is bound as a Variable the
\* forms that use that name are evaluated
repl_eval(n) ==
    /\ pc = "read"
    /\ first_eq_number => n \in EqForms
    /\ lookup_variable(env, n_add) # NULL => n \in AfterFunctionNameForms
    /\ \E r \in {IF IsAbort(n) THEN Ret(n, env, <<>>) ELSE eval(env, n)} :
          /\ SmallEnv(r.env)
          /\ pc' = "print"
          /\ env' = r.env
          /\ before' = env
          /\ form' = n
          /\ result' = r.val
          /\ calls' = r.calls
    /\ UNCHANGED <<value, line, tokens, first_eq_number>>

\* print wrote and freed the result and returned false (the node is not the
\* end of input, the evaluation did not kill the process): the loop goes on
repl_print ==
    /\ pc = "print"
    /\ ~IsAbort(result)
    /\ result.type # "MAL_EOF"
    /\ pc' = "read"
    /\ before' = env
    /\ form' = NULL
    /\ result' = NULL
    /\ calls' = <<>>
    /\ first_eq_number' \in BOOLEAN
    /\ UNCHANGED <<env, value, line, tokens>>

\* readline returned NULL: reed is the end of input, print returns true
repl_eof ==
    LET r == eval(env, alloceof)
    IN /\ pc = "read"
       /\ pc' = "done"
       /\ env' = r.env
       /\ before' = env
       /\ form' = alloceof
       /\ result' = r.val
       /\ calls' = r.calls
       /\ UNCHANGED <<value, line, tokens, first_eq_number>>

Next ==
    \/ \E n \in Forms \cup ReadNodes : repl_eval(n)
    \/ repl_print
    \/ repl_eof

Spec == Init /\ [][Next]_vars

\* ------------------------------------------------------------------------
\* The reader alone: a line is tokenized and read; the line is either made
\* of a few words or is the readable print of a node (the round trip)
\* ------------------------------------------------------------------------
Words == {<<"(">>, <<")">>, <<"[">>, <<"]">>, <<"{">>, <<"}">>, <<"1">>, <<":", "a">>,
          <<"'">>, <<"^">>, <<"\"", "a", "b", "\"">>}

WordSeqs == UNION {[1..k -> Words] : k \in 0..MaxTokens}

\* the words of a line, with a space between two words that are not specials
RECURSIVE Join(_)
Join(ws) ==
    IF ws = <<>> THEN <<>>
    ELSE IF Len(ws) = 1 THEN ws[1]
    ELSE ws[1]
         \o (IF Head(ws[1]) \in special \/ Head(ws[2]) \in special THEN <<>> ELSE <<" ">>)
         \o Join(Tail(ws))

\* lines of more words than MaxTokens
LongLines ==
    {<<"{", "1", " ", "2", "}">>,
     <<"{", ":", "a", " ", "1", "}">>,
     <<"{", "\"", "a", "\"", " ", "{", "(", ")", " ", "1", "}", "}">>,
     <<"(", "1", " ", "2", "]">>,
     <<"(", "1", " ", "2", "]", ")">>}

\* lines of a reader macro and a form
MacroLines ==
    {q \o f :
        q \in {<<"'">>, <<backquote>>, <<"~">>, <<"~", "@">>, <<"@">>},
        f \in {<<"1">>, <<":", "a">>, <<"(", "1", ")">>, <<"a">>}}

\* the texts of the string literals read
StringTexts == {<<"a">>, <<"a", "b", "c">>, <<"\\">>, <<"a", "\\">>, <<"\n">>, <<"\"", "a">>}

\* the string literal of a text: each backslash, double quote and newline
\* written as its escape, between double quotes
RECURSIVE Escaped(_)
Escaped(text) ==
    IF text = <<>> THEN <<>>
    ELSE (CASE Head(text) = "\\" -> <<"\\", "\\">>
            [] Head(text) = "\"" -> <<"\\", "\"">>
            [] Head(text) = "\n" -> <<"\\", "n">>
            [] OTHER -> <<Head(text)>>)
         \o Escaped(Tail(text))

Literal(text) == <<"\"">> \o Escaped(text) \o <<"\"">>

\* lines of a string literal, alone and followed by a number
StringLines ==
    {Literal(t) : t \in StringTexts} \cup {Literal(t) \o <<" ", "1">> : t \in StringTexts}

\* lines of symbols and keywords with other characters in or after them
SymbolLines ==
    {<<"a", "~", "b">>, <<"x", "@", "y">>, <<"a", "^", "b">>, <<":", "k", "~", "1">>,
     <<"a", "(", "b">>, <<"a", ",", "b", ";", "c">>, <<"a", "b", "\"", "c", "\"">>,
     <<":", "k", backquote, "a", "\t", "b">>, <<"a", "'", "b", "]">>}

Lines ==
    {Join(ws) : ws \in WordSeqs} \cup LongLines \cup MacroLines \cup StringLines
    \cup SymbolLines

StringChars == {"a", "\\", "\"", "\n"}

Strings == UNION {[1..k -> StringChars] : k \in 0..MaxString}

AtomValues ==
    {allocnil, alloctrue, allocfalse, Num(0), Num(7), Num(-12),
     Sym(<<"a">>), Sym(n_lteq), Kw(<<"a">>), Kw(<<"k", "1">>)}
    \cup {Str(chars) : chars \in Strings}

\* the atoms put in containers: one of each type, strings of one character
ElementValues == {v \in AtomValues : v.type = "MAL_STRING" => Len(v.string) = 1}
                 \ {Num(0), Num(-12), Kw(<<"k", "1">>), alloctrue, allocfalse}

ElementSeqs == UNION {[1..k -> ElementValues] : k \in 0..MaxElements}

Values ==
    AtomValues
    \cup {L(e) : e \in ElementSeqs}
    \cup {V(e) : e \in ElementSeqs}
    \cup {allochashmap(<<k>>, <<v>>) : k \in {Kw(<<"a">>), Str(<<"a">>), Str(<<"a", "\"">>)},
                                       v \in AtomValues}
    \cup {allochashmap(<<Kw(<<"a">>), Str(<<>>)>>, <<v, L(<<v>>)>>) : v \in AtomValues}
    \cup {L(<<L(<<v>>), V(<<v, w>>)>>) : v \in AtomValues, w \in {Num(7), Str(<<"\\">>)}}
    \cup {allochashmap(<<>>, <<>>)}

InitRead ==
    /\ \/ pc = "value" /\ value \in Values /\ line = <<>>
       \/ pc = "line" /\ value = NULL /\ line \in Lines
    /\ tokens = Tokens(<<>>)
    /\ form = NULL
    /\ env = initial_environment
    /\ before = initial_environment
    /\ result = NULL
    /\ calls = <<>>
    /\ first_eq_number = FALSE

\* print(value): the line is what was written to stdout, less the newline
\* that ends it (readline returns a line without its newline)
read_print ==
    /\ pc = "value"
    /\ pc' = "line"
    /\ line' = Take(print(value).out, Len(print(value).out) - 1)
    /\ UNCHANGED <<env, before, form, result, calls, value, tokens, first_eq_number>>

\* tokens = tokenizer(line)
read_tokenize ==
    /\ pc = "line"
    /\ pc' = "tokens"
    /\ tokens' = tokenizer(line)
    /\ UNCHANGED <<env, before, form, result, calls, value, line, first_eq_number>>

\* n = read_form(tokens)
read_read ==
    /\ pc = "tokens"
    /\ pc' = "node"
    /\ form' = read_form(tokens)
    /\ UNCHANGED <<env, before, result, calls, value, line, tokens, first_eq_number>>

NextRead == read_print \/ read_tokenize \/ read_read

SpecRead == InitRead /\ [][NextRead]_vars

\* ------------------------------------------------------------------------
\* Properties of the evaluator (specification Spec)
\* ------------------------------------------------------------------------
\* n is a call of the function named f with k arguments
IsCall(n, f, k) == n.type = "MAL_LIST" /\ Len(n.list) = k + 1 /\ n.list[1] = Sym(f)

\* some scope of the chain e holds a Variable of that name
HasVariable(e, name) ==
    \E s \in 1..Len(e) : \E i \in 1..Len(e[s]) :
        e[s][i].type = "SYM_VARIABLE" /\ e[s][i].name = name

VariableCount(symbols, name) ==
    Cardinality({i \in 1..Len(symbols) :
                    symbols[i].type = "SYM_VARIABLE" /\ symbols[i].name = name})

\* a list headed by the symbol def! occurs in n
RECURSIVE ContainsDef(_)
ContainsDef(n) ==
    CASE n.type \in {"MAL_LIST", "MAL_VECTOR"} ->
            \/ n.type = "MAL_LIST" /\ n.list # <<>> /\ n.list[1] = Sym(n_def)
            \/ \E i \in 1..Len(n.list) : ContainsDef(n.list[i])
      [] n.type = "MAL_HASHMAP" ->
            \/ \E i \in 1..Len(n.keys) : ContainsDef(n.keys[i])
            \/ \E i \in 1..Len(n.values) : ContainsDef(n.values[i])
      [] OTHER -> FALSE

DefSucceeded(c) == c.name = n_def /\ c.ran /\ ~IsError(c.val) /\ ~IsAbort(c.val)

\* C1: once (def! x v) returned a value r that is not an Error, evaluating
\* x in the environment of the call returns r, r is the value v evaluated
\* to, and that scope holds one Variable named x: a redefinition replaces
C1_DefThenLookup ==
    \A i \in 1..Len(calls) :
        DefSucceeded(calls[i]) =>
            /\ eval_variable(calls[i].after, calls[i].args[1]) = calls[i].val
            /\ calls[i].val = calls[i].args[2]
            /\ VariableCount(Symbols(calls[i].after), calls[i].args[1].sym) = 1

\* a def! at top level gave x a value other than the one it had there
C1_Witness ==
    \E i \in 1..Len(calls) :
        /\ DefSucceeded(calls[i])
        /\ Len(calls[i].before) = 1
        /\ HasVariable(calls[i].before, calls[i].args[1].sym)
        /\ eval_variable(calls[i].before, calls[i].args[1]) # calls[i].val
        /\ eval_variable(env, calls[i].args[1]) = calls[i].val

LetPair(a, b) == L(<<x, Num(a), y, Call2(n_add, x, Num(b))>>)

\* C2: let* binds its pairs left to right in a new environment, so a value
\* form reads the pairs before it (and not the ones after it), and the
\* body is evaluated there: (let* (x 1 y (+ x 1)) (+ x y)) is 3
C2_LetSequential ==
    pc = "print" =>
        /\ form = Call2(n_let, LetPair(1, 1), Call2(n_add, x, y)) => result = Num(3)
        /\ form = Call2(n_let, LetPair(2, 2), Call2(n_add, x, y)) => result = Num(6)
        /\ form = Call2(n_let, LetPair(1, 1), y) => result = Num(2)
        /\ form = Call2(n_let, L(<<x, Num(1), x, Call2(n_add, x, x)>>), x) => result = Num(2)
        /\ form = Call2(n_let, L(<<x, Num(1)>>), x) => result = Num(1)
        /\ form = Call2(n_let, L(<<y, Call2(n_add, x, Num(1)), x, Num(1)>>), y) =>
              IF eval_variable(before, x).type = "MAL_NUMBER"
              THEN result = Num(eval_variable(before, x).number + 1)
              ELSE IsError(result)

\* the example returned 3 where x and y were bound to other values outside
C2_Witness ==
    /\ pc = "print"
    /\ form = Call2(n_let, LetPair(1, 1), Call2(n_add, x, y))
    /\ result = Num(3)
    /\ eval_variable(before, x) = str_a
    /\ eval_variable(before, y) = Num(0)

C4_UnaryMinusNegates ==
    (pc = "print" /\ IsCall(form, n_sub, 1) /\ form.list[2].type = "MAL_NUMBER") =>
        result = Num(-form.list[2].number)

\* the divisor at index k of args is Integer 0 and every argument before it
\* is an Integer
ZeroDivisorReached(args) ==
    \E k \in 2..Len(args) :
        /\ args[k] = Num(0)
        /\ \A j \in 1..(k - 1) : args[j].type = "MAL_NUMBER"

\* a call of + - * / < <= > >= with an argument that is not an Integer
\* returns an Error
NumericArgumentsChecked(c) ==
    /\ ~c.ran => IsError(c.val) \/ IsAbort(c.val)
    /\ (c.ran /\ \E j \in 1..Len(c.args) : c.args[j].type # "MAL_NUMBER") => IsError(c.val)

C9_NoDefNoChange ==
    /\ (pc \in {"print", "done"} /\ ~ContainsDef(form)) => env = before
    /\ \A i \in 1..Len(calls) : ~ContainsDef(calls[i].form) => calls[i].after = calls[i].before

\* a let* with two bindings and no def! returned a value in an environment
\* that has variables
C9_Witness ==
    /\ pc = "print"
    /\ form = Call2(n_let, LetPair(2, 2), Call2(n_add, x, y))
    /\ result = Num(6)
    /\ HasVariable(before, <<"x">>)
    /\ HasVariable(before, <<"y">>)

\* C10: a Symbol with no Variable of its name in the environment chain
\* evaluates to the Error "unbound variable '<name>'", at top level and in
\* the body of a let*, also when the name is bound as a Function
C10_UnboundVariable ==
    pc = "print" =>
        /\ (form.type = "MAL_SYMBOL" /\ ~HasVariable(before, form.sym))
           => result = allocerror("unbound variable '%s'", form.sym)
        /\ (/\ IsCall(form, n_let, 2)
            /\ form.list[2] = L(<<x, Num(1)>>)
            /\ form.list[3].type = "MAL_SYMBOL"
            /\ form.list[3] # x
            /\ ~HasVariable(before, form.list[3].sym))
           => result = allocerror("unbound variable '%s'", form.list[3].sym)

\* the symbol + was evaluated where + is bound as a Function
C10_Witness ==
    /\ pc = "print"
    /\ form = Sym(n_add)
    /\ lookup_function(before, n_add) # NULL
    /\ result = allocerror("unbound variable '%s'", n_add)

\* ------------------------------------------------------------------------
\* Properties of the reader (specification SpecRead)
\* ------------------------------------------------------------------------
Closer(opener) ==
    CASE opener = <<"(">> -> <<")">>
      [] opener = <<"[">> -> <<"]">>
      [] opener = <<"{">> -> <<"}">>

Openers == {<<"(">>, <<"[">>, <<"{">>}

Closers == {<<")">>, <<"]">>, <<"}">>}

Prefixes == {<<"'">>, <<backquote>>, <<"~">>, <<"~", "@">>, <<"@">>, <<"^">>}

\* how the brackets of the first form of the tokens pair up: "complete"
\* when its container is closed, "unterminated" when the tokens end inside
\* a container, "mismatch" when a closer of another kind comes inside a
\* container, "atom" when the first form is no container
RECURSIVE Brackets(_, _, _)
Brackets(toks, i, stack) ==
    IF i > Len(toks) THEN (IF stack = <<>> THEN "atom" ELSE "unterminated")
    ELSE IF toks[i] \in Openers THEN Brackets(toks, i + 1, <<toks[i]>> \o stack)
    ELSE IF toks[i] \in Closers
         THEN IF stack = <<>> THEN "atom"
              ELSE IF toks[i] # Closer(Head(stack)) THEN "mismatch"
              ELSE IF Tail(stack) = <<>> THEN "complete"
              ELSE Brackets(toks, i + 1, Tail(stack))
    ELSE IF stack = <<>> /\ toks[i] \notin Prefixes THEN "atom"
    ELSE Brackets(toks, i + 1, stack)

\* C6: reading the readable print of a node returns a node equal to it
C6_RoundTrip ==
    (pc = "node" /\ value # NULL) => form = value

\* C7: reading tokens that end inside a container returns an Error
C7_UnterminatedIsError ==
    (pc = "node" /\ value = NULL /\ Brackets(tokens.tokens, 1, <<>>) = "unterminated")
        => IsError(form)

MismatchFormats == {"expected ')', got '%s'", "expected ']', got '%s'", "expected '}', got '%s'"}

\* C8: reading a container in which a closer of another kind comes returns
\* one of the "expected ..., got ..." Errors
C8_MismatchIsError ==
    (pc = "node" /\ value = NULL /\ Brackets(tokens.tokens, 1, <<>>) = "mismatch")
        => IsError(form) /\ form.message.fmt \in MismatchFormats

\* ------------------------------------------------------------------------
\* More properties of the evaluator (specification Spec)
\* ------------------------------------------------------------------------
\* C11: a call of = with two or more arguments returns True when all its
\* arguments have the same type and equal content, and False otherwise
C11_StructuralEquality ==
    \A i \in 1..Len(calls) :
        (calls[i].name = n_eq /\ calls[i].ran /\ Len(calls[i].args) >= 2) =>
            calls[i].val =
                IF \A j \in 2..Len(calls[i].args) : calls[i].args[j] = calls[i].args[1]
                THEN alloctrue
                ELSE allocfalse

\* the number of leading arguments each function of the initial environment
\* takes unevaluated
InitialFunctions ==
    {<<n_add, 0>>, <<n_sub, 0>>, <<n_mul, 0>>, <<n_div, 0>>, <<n_lt, 0>>, <<n_lteq, 0>>,
     <<n_gt, 0>>, <<n_gteq, 0>>, <<n_eq, 0>>, <<n_def, 1>>, <<n_let, 2>>}

\* the values of the forms evaluated one after the other, each in the
\* environment the one before it left
RECURSIVE ValuesInOrder(_, _)
ValuesInOrder(e, forms) ==
    IF forms = <<>> THEN <<>>
    ELSE <<eval_(e, Head(forms)).val>> \o ValuesInOrder(eval_(e, Head(forms)).env, Tail(forms))

\* the arguments the implementation of the call c was given: the first k
\* of the call's argument forms as they are, the others evaluated in order
\* in the environment of the call
ArgumentsPassed(c, k) ==
    LET given == Tail(c.form.list)
        raw == IF k < Len(given) THEN k ELSE Len(given)
    IN c.args = SubSeq(given, 1, raw)
                \o ValuesInOrder(c.before, SubSeq(given, raw + 1, Len(given)))

\* the implementation of the call c was not run: one of the arguments after
\* the first k evaluated to the Error the call returned
ArgumentFailed(c, k) ==
    LET given == Tail(c.form.list)
        raw == IF k < Len(given) THEN k ELSE Len(given)
        vals == ValuesInOrder(c.before, SubSeq(given, raw + 1, Len(given)))
    IN \E j \in 1..Len(vals) :
          /\ IsError(vals[j]) \/ IsAbort(vals[j])
          /\ c.val = vals[j]
          /\ \A h \in 1..(j - 1) : ~IsError(vals[h]) /\ ~IsAbort(vals[h])

\* C13: + - * / < <= > >= = def! let* are Functions of the top-level
\* environment with nonevalargs 1 for def!, 2 for let* and 0 for the others,
\* and the implementation of a call is given its first nonevalargs
\* arguments unevaluated and the others evaluated left to right in the
\* calling environment
C13_NonEvalArgs ==
    /\ \A f \in InitialFunctions :
          /\ lookup_function(env, f[1]) # NULL
          /\ lookup_function(env, f[1]).type = "SYM_FUNCTION"
          /\ lookup_function(env, f[1]).nonevalargs = f[2]
    /\ \A i \in 1..Len(calls) :
          \E f \in InitialFunctions :
              /\ f[1] = calls[i].name
              /\ calls[i].ran => ArgumentsPassed(calls[i], f[2])
              /\ ~calls[i].ran => ArgumentFailed(calls[i], f[2])

\* (def! x (+ y 1)) with x unbound and y bound returned a number: def! was
\* given the symbol x and the value of (+ y 1), + the value of y and 1
C13_Witness ==
    /\ pc = "print"
    /\ form = Call2(n_def, x, Call2(n_add, y, Num(1)))
    /\ ~HasVariable(before, <<"x">>)
    /\ result.type = "MAL_NUMBER"
    /\ Len(calls) = 2
    /\ calls[1].name = n_add /\ calls[1].args = <<eval_variable(before, y), Num(1)>>
    /\ calls[2].name = n_def /\ calls[2].args = <<x, result>>

\* C18: a HashMap whose values evaluate without Error evaluates to the
\* HashMap of the same keys, not evaluated, and the values evaluated in
\* order
C18_HashMapEvaluation ==
    (/\ pc = "print"
     /\ form.type = "MAL_HASHMAP"
     /\ \A i \in 1..Len(form.values) :
            /\ ~IsError(ValuesInOrder(before, form.values)[i])
            /\ ~IsAbort(ValuesInOrder(before, form.values)[i]))
    => result = allochashmap(form.keys, ValuesInOrder(before, form.values))

\* the forms whose values a container form evaluates one after the other
\* in the environment e (none for a call)
ElementForms(e, n) ==
    IF n.type = "MAL_VECTOR" THEN n.list
    ELSE IF n.type = "MAL_HASHMAP" THEN n.values
    ELSE IF n.type = "MAL_LIST" /\ n.list = <<>> THEN n.list
    ELSE IF n.type = "MAL_LIST" /\ Head(n.list).type # "MAL_SYMBOL" THEN n.list
    ELSE IF n.type = "MAL_LIST" /\ lookup_function(e, Head(n.list).sym) = NULL THEN n.list
    ELSE <<>>

\* vals[j] is the first Error of vals, and nothing before it aborted
FirstError(vals, j) ==
    /\ IsError(vals[j])
    /\ \A h \in 1..(j - 1) : ~IsError(vals[h]) /\ ~IsAbort(vals[h])

\* a non-call List, a Vector or a HashMap with an element that evaluates to
\* an Error evaluates to that Error, and a call with an evaluated argument
\* that evaluates to an Error returns that Error
ElementErrorsUnchanged ==
    /\ pc = "print" =>
          \A j \in 1..Len(ElementForms(before, form)) :
              FirstError(ValuesInOrder(before, ElementForms(before, form)), j)
                  => result = ValuesInOrder(before, ElementForms(before, form))[j]
    /\ \A i \in 1..Len(calls) :
          \A f \in InitialFunctions :
              (f[1] = calls[i].name /\ ~calls[i].ran) => ArgumentFailed(calls[i], f[2])

\* the call c is a let* of two arguments whose first binding is of a symbol
\* to a form that evaluates to an Error in the inner environment
FirstBindingFails(c) ==
    /\ c.name = n_let /\ c.ran /\ Len(c.args) = 2
    /\ c.args[1].type \in {"MAL_LIST", "MAL_VECTOR"}
    /\ Len(c.args[1].list) >= 2
    /\ c.args[1].list[1].type = "MAL_SYMBOL"
    /\ IsError(eval_(allocenvironment(c.before), c.args[1].list[2]).val)

\* C19 as stated: the Error of an element of a non-call List, a Vector or a
\* HashMap, of a call argument or of a let* binding value is the result of
\* the enclosing form, unchanged
C19_ErrorsUnchanged ==
    /\ ElementErrorsUnchanged
    /\ \A i \in 1..Len(calls) :
          FirstBindingFails(calls[i]) =>
              calls[i].val = eval_(allocenvironment(calls[i].before),
                                   calls[i].args[1].list[2]).val

\* C19 amended: the Error of an element of a non-call List, a Vector or a
\* HashMap or of a call argument is the result of the enclosing form,
\* unchanged; a let* with a binding value that evaluates to an Error
\* returns the Error "can not evaluate binding value"
C19_ErrorsPropagate ==
    /\ ElementErrorsUnchanged
    /\ \A i \in 1..Len(calls) :
          FirstBindingFails(calls[i]) =>
              calls[i].val = allocerror("can not evaluate binding value", <<>>)

\* with z unbound (z (def! x 1)) returned the Error of z, and
\* (let* (x (/ 1 0)) x) returned the Error of let*
C19_Witness ==
    /\ pc = "print"
    /\ \/ /\ form = L(<<z, Call2(n_def, x, Num(1))>>)
          /\ result = allocerror("unbound variable '%s'", <<"z">>)
       \/ /\ form = Call2(n_let, L(<<x, Call2(n_div, Num(1), Num(0))>>), x)
          /\ result = allocerror("can not evaluate binding value", <<>>)

\* the environment the forms leave when evaluated one after the other
RECURSIVE EnvAfter(_, _)
EnvAfter(e, forms) ==
    IF forms = <<>> THEN e ELSE EnvAfter(eval_(e, Head(forms)).env, Tail(forms))

\* the elements of an evaluated List, Vector or HashMap
Elements(n) == IF n.type = "MAL_HASHMAP" THEN n.values ELSE n.list

\* forms evaluated from e gave the node val and the environment after: up
\* to the first Error the forms were evaluated in order and no form behind
\* it was, and with no Error all were and vals are their values
InOrderUntilError(e, forms, val, vals, after) ==
    /\ \A j \in 1..Len(forms) :
          FirstError(ValuesInOrder(e, forms), j) =>
              /\ val = ValuesInOrder(e, forms)[j]
              /\ after = EnvAfter(e, SubSeq(forms, 1, j))
    /\ (\A j \in 1..Len(forms) : /\ ~IsError(ValuesInOrder(e, forms)[j])
                                 /\ ~IsAbort(ValuesInOrder(e, forms)[j])) =>
          /\ vals = ValuesInOrder(e, forms)
          /\ after = EnvAfter(e, forms)

\* C20: the elements of a non-call List, of a Vector, the values of a
\* HashMap and the arguments of a call of a native function are evaluated
\* left to right up to the first that gives an Error, and none behind it
C20_LeftToRightUntilError ==
    /\ (pc = "print" /\ ElementForms(before, form) # <<>> /\ ~IsAbort(result)) =>
          InOrderUntilError(before, ElementForms(before, form), result,
                            IF IsError(result) THEN <<>> ELSE Elements(result), env)
    /\ \A i \in 1..Len(calls) :
          calls[i].name \in NumericNames \cup {n_eq} =>
              InOrderUntilError(calls[i].before, Tail(calls[i].form.list), calls[i].val,
                                calls[i].args, calls[i].after)

\* with x and z unbound (z (def! x 1)) returned the Error of z and x is
\* still unbound, and (+ (def! x 1) z) returned it with x bound
C20_Witness ==
    /\ pc = "print"
    /\ ~HasVariable(before, <<"x">>)
    /\ result = allocerror("unbound variable '%s'", <<"z">>)
    /\ \/ form = L(<<z, Call2(n_def, x, Num(1))>>) /\ env = before
       \/ form = Call2(n_add, Call2(n_def, x, Num(1)), z) /\ HasVariable(env, <<"x">>)

\* ------------------------------------------------------------------------
\* More properties of the reader (specification SpecRead)
\* ------------------------------------------------------------------------
\* every HashMap in the node n has as many keys as values and only String
\* and Keyword keys
RECURSIVE HashMapsWellFormed(_)
HashMapsWellFormed(n) ==
    CASE n.type \in {"MAL_LIST", "MAL_VECTOR"} ->
            \A i \in 1..Len(n.list) : HashMapsWellFormed(n.list[i])
      [] n.type = "MAL_HASHMAP" ->
            /\ Len(n.keys) = Len(n.values)
            /\ \A i \in 1..Len(n.keys) : n.keys[i].type \in {"MAL_STRING", "MAL_KEYWORD"}
            /\ \A i \in 1..Len(n.keys) : HashMapsWellFormed(n.keys[i])
            /\ \A i \in 1..Len(n.values) : HashMapsWellFormed(n.values[i])
      [] OTHER -> TRUE

\* C12: every HashMap the reader returns has as many keys as values and
\* only String or Keyword keys
C12_ReadHashMapInvariant ==
    (pc = "node" /\ value = NULL) => HashMapsWellFormed(form)

\* the tokens of one atom each among the words of the lines
AtomTokens == {<<"1">>, <<":", "a">>, <<"\"", "a", "b", "\"">>}

\* C14: reading ^ followed by the forms m and t returns the List
\* (with-meta t m) and leaves the cursor behind the three tokens
C14_MetadataRead ==
    (/\ pc = "node"
     /\ Len(tokens.tokens) = 3
     /\ tokens.tokens[1] = <<"^">>
     /\ tokens.tokens[2] \in AtomTokens
     /\ tokens.tokens[3] \in AtomTokens)
    => /\ form = L(<<Sym(<<"w", "i", "t", "h", "-", "m", "e", "t", "a">>),
                      read_form_(tokens.tokens, 3).node,
                      read_form_(tokens.tokens, 2).node>>)
       /\ read_form_(tokens.tokens, 1).pos = 4

\* the Symbol each reader macro token stands for
MacroSymbols ==
    {<<<<"'">>, <<"q", "u", "o", "t", "e">>>>,
     <<<<backquote>>, <<"q", "u", "a", "s", "i", "q", "u", "o", "t", "e">>>>,
     <<<<"~">>, <<"u", "n", "q", "u", "o", "t", "e">>>>,
     <<<<"~", "@">>, <<"s", "p", "l", "i", "c", "e", "-", "u", "n", "q", "u", "o", "t", "e">>>>,
     <<<<"@">>, <<"d", "e", "r", "e", "f">>>>}

\* C15: reading one of the tokens ' (backquote) ~ ~@ @ followed by a form x
\* returns the List of the Symbol quote, quasiquote, unquote,
\* splice-unquote or deref and x, and leaves the cursor behind x
C15_ReaderMacros ==
    \A m \in MacroSymbols :
        (/\ pc = "node"
         /\ Len(tokens.tokens) >= 2
         /\ tokens.tokens[1] = m[1]
         /\ ~IsError(read_form_(tokens.tokens, 2).node)
         /\ ~IsAbort(read_form_(tokens.tokens, 2).node)
         /\ read_form_(tokens.tokens, 2).node # NULL)
        => /\ form = L(<<Sym(m[2]), read_form_(tokens.tokens, 2).node>>)
           /\ read_form_(tokens.tokens, 1).pos = read_form_(tokens.tokens, 2).pos

\* C16: the literal of a text reads as the String of that text, and the
\* literal ends at its closing quote, also after an escaped backslash
C16_StringLiteralRead ==
    \A t \in StringTexts :
        /\ (pc = "node" /\ value = NULL /\ line = Literal(t)) => form = Str(t)
        /\ (pc = "node" /\ line = Literal(t) \o <<" ", "1">>) =>
               /\ tokens = Tokens(<<Literal(t), <<"1">>>>)
               /\ form = Str(t)

\* the tokens of symbols, numbers and keywords: those that do not begin
\* with a special character or a double quote
SymbolLike(token) == Head(token) \notin special \cup {"\""}

\* C17 as stated: no symbol-like token holds a whitespace, a comma, a
\* double quote, a semicolon or one of the specials [ ] { } ( ) ' ~ ^ @ and
\* the backquote
C17_SpecialsEndSymbols ==
    pc \in {"tokens", "node"} =>
        \A i \in 1..Len(tokens.tokens) :
            SymbolLike(tokens.tokens[i]) =>
                \A j \in 1..Len(tokens.tokens[i]) :
                    tokens.tokens[i][j] \notin whitecomma \cup special \cup {"\"", ";"}

\* C17 amended: no symbol-like token holds a whitespace, a comma, a double
\* quote, a semicolon or one of [ ] { } ( ) ' and the backquote; the
\* specials ~ ^ @ do not end a symbol-like token: a~b, x@y and a^b are one
\* token each
C17_SymbolTokens ==
    pc \in {"tokens", "node"} =>
        /\ \A i \in 1..Len(tokens.tokens) :
              SymbolLike(tokens.tokens[i]) =>
                  \A j \in 1..Len(tokens.tokens[i]) :
                      tokens.tokens[i][j] \notin notallowed
        /\ line \in {<<"a", "~", "b">>, <<"x", "@", "y">>, <<"a", "^", "b">>}
              => tokens = Tokens(<<line>>)

\* the line a'b] gave the tokens a ' b ] and the line a~b the token a~b
C17_Witness ==
    /\ pc = "tokens"
    /\ \/ line = <<"a", "'", "b", "]">>
             /\ tokens = Tokens(<<<<"a">>, <<"'">>, <<"b">>, <<"]">>>>)
       \/ line = <<"a", "~", "b">> /\ tokens = Tokens(<<line>>)

\* ------------------------------------------------------------------------
\* Properties of failing calls and of scopes (specification Spec)
\* ------------------------------------------------------------------------
\* the Variables of that name in each scope of the chain e
VariablesOf(e, name) ==
    [s \in 1..Len(e) |->
        SelectSeq(e[s], LAMBDA b : b.type = "SYM_VARIABLE" /\ b.name = name)]

\* the environment the forms leave when evaluated one after the other up to
\* the first that gives an Error
RECURSIVE EnvUntilError(_, _)
EnvUntilError(e, forms) ==
    IF forms = <<>> THEN e
    ELSE IF IsError(eval_(e, Head(forms)).val) \/ IsAbort(eval_(e, Head(forms)).val)
    THEN eval_(e, Head(forms)).env
    ELSE EnvUntilError(eval_(e, Head(forms)).env, Tail(forms))

\* the argument forms of the call c behind its first k
EvaluatedForms(c, k) ==
    SubSeq(c.form.list, k + 2, Len(c.form.list))

DefFailed(c) == c.name = n_def /\ IsError(c.val)

\* C21 as stated: a def! call that returned an Error leaves the Variables
\* named by its first argument, in every scope, as they were before the call
C21_FailedDefLeavesName ==
    \A i \in 1..Len(calls) :
        (/\ DefFailed(calls[i])
         /\ Len(calls[i].form.list) >= 2
         /\ calls[i].form.list[2].type = "MAL_SYMBOL")
        => VariablesOf(calls[i].after, calls[i].form.list[2].sym)
              = VariablesOf(calls[i].before, calls[i].form.list[2].sym)

\* C21 amended: a def! call that returned an Error leaves the environment
\* as the evaluation of its argument forms behind the name left it: the
\* failing def! binds, changes and removes nothing itself, and with no def!
\* call among those forms the environment is as it was before the call
C21_FailedDefBindsNothing ==
    \A i \in 1..Len(calls) :
        DefFailed(calls[i]) =>
            /\ calls[i].after = EnvUntilError(calls[i].before, EvaluatedForms(calls[i], 1))
            /\ (\A j \in 1..Len(EvaluatedForms(calls[i], 1)) :
                    ~ContainsDef(EvaluatedForms(calls[i], 1)[j]))
               => calls[i].after = calls[i].before

\* with x bound, (def! x 1 2) and (def! x (/ 1 0)) returned their Errors
\* and x is bound as before
C21_Witness ==
    /\ pc = "print"
    /\ form \in {Call3(n_def, x, Num(1), Num(2)), Call2(n_def, x, Call2(n_div, Num(1), Num(0)))}
    /\ IsError(result)
    /\ HasVariable(before, <<"x">>)
    /\ eval_variable(before, x) # Num(1)
    /\ env = before

\* the call c is a let* call of one of the rejected shapes: bindings that
\* are no List or Vector, an odd number of binding elements, a binding name
\* that is no Symbol, a binding value that evaluates to an Error, no body,
\* or more than one body form
LetRejected(c) ==
    /\ c.name = n_let
    /\ Len(c.form.list) >= 2
    /\ ~IsAbort(c.val)
    /\ \/ c.form.list[2].type \notin {"MAL_LIST", "MAL_VECTOR"}
       \/ Len(c.form.list) = 2
       \/ Len(c.form.list) > 3
       \/ Len(c.form.list[2].list) % 2 = 1
       \/ \E k \in 1..Len(c.form.list[2].list) :
              k % 2 = 1 /\ c.form.list[2].list[k].type # "MAL_SYMBOL"
       \/ eval_let_loop(allocenvironment(c.before), c.form.list[2].list, <<>>).val
              = allocerror("can not evaluate binding value", <<>>)

\* a call of the form n returned before the call of index i did
EvaluatedBefore(i, n) ==
    \E j \in 1..(i - 1) : calls[j].form = n

\* C22 as stated: a let* call of a rejected shape returns an Error and
\* evaluates none of its body forms
C22_LetRejectsUnevaluated ==
    \A i \in 1..Len(calls) :
        LetRejected(calls[i]) =>
            /\ IsError(calls[i].val)
            /\ \A k \in 3..Len(calls[i].form.list) :
                   ~EvaluatedBefore(i, calls[i].form.list[k])

\* C22 amended: a let* call of a rejected shape returns an Error and does
\* not evaluate its second argument, the body; the body forms behind it
\* are evaluated in the calling environment before let* rejects the call,
\* and their effects are all the call leaves
C22_LetRejects ==
    \A i \in 1..Len(calls) :
        LetRejected(calls[i]) =>
            /\ IsError(calls[i].val)
            /\ Len(calls[i].form.list) >= 3 => ~EvaluatedBefore(i, calls[i].form.list[3])
            /\ calls[i].after = EnvUntilError(calls[i].before, EvaluatedForms(calls[i], 2))

\* with z unbound, let* calls with the body (def! z 1) returned an Error
\* for an odd number of binding elements and for a second body form, and z
\* is still unbound
C22_Witness ==
    /\ pc = "print"
    /\ form \in {Call2(n_let, L(<<x, Num(1), y>>), Call2(n_def, z, Num(1))),
                 Call3(n_let, L(<<x, Num(1)>>), Call2(n_def, z, Num(1)), Call2(n_def, y, Num(2)))}
    /\ IsError(result)
    /\ ~HasVariable(before, <<"z">>)
    /\ ~HasVariable(env, <<"z">>)

\* the Functions in each scope of the chain e
FunctionsOf(e) ==
    [s \in 1..Len(e) |-> SelectSeq(e[s], LAMBDA b : b.type = "SYM_FUNCTION")]

\* n is a List headed by the name of a Function of the initial environment
IsInitialCall(n) ==
    /\ n.type = "MAL_LIST" /\ n.list # <<>> /\ n.list[1].type = "MAL_SYMBOL"
    /\ \E f \in InitialFunctions : f[1] = n.list[1].sym

\* C23: a def! of a name that is bound as a Function binds the Variable and
\* leaves the Function: the symbol then evaluates to the value, a List
\* headed by it is still a call of the Function, and no call, def! and
\* let* included, removes or replaces a Function of any scope
C23_KindsIndependent ==
    /\ FunctionsOf(env) = FunctionsOf(initial_environment)
    /\ \A i \in 1..Len(calls) :
          /\ FunctionsOf(calls[i].after) = FunctionsOf(calls[i].before)
          /\ (/\ DefSucceeded(calls[i])
              /\ lookup_function(calls[i].before, calls[i].args[1].sym) # NULL)
             => /\ eval_variable(calls[i].after, calls[i].args[1]) = calls[i].args[2]
                /\ lookup_function(calls[i].after, calls[i].args[1].sym)
                      = lookup_function(calls[i].before, calls[i].args[1].sym)
    /\ (pc = "print" /\ IsInitialCall(form)) =>
          /\ calls # <<>>
          /\ calls[Len(calls)].form = form
          /\ calls[Len(calls)].val = result
    /\ (/\ pc = "print"
        /\ form = Call2(n_add, Sym(n_add), Num(1))
        /\ eval_variable(before, Sym(n_add)).type = "MAL_NUMBER")
       => result = Num(eval_variable(before, Sym(n_add)).number + 1)
    /\ (pc = "print" /\ form = Call2(n_add, Num(1), Num(2))) => result = Num(3)
    /\ (/\ pc = "print"
        /\ form = Call2(n_let, L(<<x, Call2(n_def, Sym(n_lt), Num(2))>>),
                        Call2(n_lt, x, Sym(n_lt))))
       => result = allocfalse

\* with + bound to 1 by a def! in the scope that holds the Function +, the
\* symbol + evaluated to 1 and (+ + 1) returned 2
C23_Witness ==
    /\ pc = "print"
    /\ FindSymbol(Symbols(before), n_add, "SYM_VARIABLE") # 0
    /\ FindSymbol(Symbols(before), n_add, "SYM_FUNCTION") # 0
    /\ \/ form = Sym(n_add) /\ result = Num(1)
       \/ form = Call2(n_add, Sym(n_add), Num(1)) /\ result = Num(2)

\* C24: a call changes no scope but the one it runs in; a def! that
\* returned a value bound it in that scope, so that the name evaluates to
\* it there while it evaluates in the outer environment as before; and
\* (let* [x 2] x) returns 2 where x is bound outside, and leaves that binding
C24_CurrentScopeNearestBinding ==
    /\ \A i \in 1..Len(calls) :
          /\ Len(calls[i].after) = Len(calls[i].before)
          /\ Outer(calls[i].after) = Outer(calls[i].before)
          /\ DefSucceeded(calls[i]) =>
                /\ FindSymbol(Symbols(calls[i].after), calls[i].args[1].sym, "SYM_VARIABLE") # 0
                /\ eval_variable(calls[i].after, calls[i].args[1]) = calls[i].args[2]
                /\ eval_variable(Outer(calls[i].after), calls[i].args[1])
                      = eval_variable(Outer(calls[i].before), calls[i].args[1])
    /\ (pc = "print" /\ form = Call2(n_let, V(<<x, Num(2)>>), x)) =>
          /\ result = Num(2)
          /\ env = before
    /\ (pc = "print" /\ form = Call2(n_let, V(<<x, Num(2)>>), Call2(n_def, x, Num(2))) ) =>
          /\ result = Num(2)
          /\ env = before
    /\ (pc = "print" /\ form = Call2(n_let, L(<<x, Num(1)>>), Call2(n_def, y, x))) =>
          /\ result = Num(1)
          /\ env = before
          /\ Len(calls) = 2
          /\ calls[1].name = n_def
          /\ Symbols(calls[1].before) = <<[type |-> "SYM_VARIABLE", name |-> <<"x">>, value |-> Num(1)]>>
          /\ Symbols(calls[1].after) =
                <<[type |-> "SYM_VARIABLE", name |-> <<"y">>, value |-> Num(1)],
                  [type |-> "SYM_VARIABLE", name |-> <<"x">>, value |-> Num(1)]>>

\* with x bound to 1 at top level (let* [x 2] x) returned 2 and x still is
\* 1, and a def! of y in a let* body bound y in the child where y is bound
\* to another value outside
C24_Witness ==
    /\ pc = "print"
    /\ eval_variable(before, x) = Num(1)
    /\ eval_variable(env, x) = Num(1)
    /\ \/ form = Call2(n_let, V(<<x, Num(2)>>), x) /\ result = Num(2)
       \/ /\ form = Call2(n_let, L(<<x, Num(1)>>), Call2(n_def, y, x))
          /\ eval_variable(before, y) = Num(0)
          /\ eval_variable(env, y) = Num(0)
          /\ eval_variable(calls[1].after, y) = Num(1)

\* C25: the loop goes from the read to the print and back with the same
\* environment, goes on after every line, one that gave an Error or
\* nothing included, and is left only at the end of input
C25_ReplLoop ==
    /\ [][/\ pc = "read" => pc' \in {"print", "done"}
          /\ pc = "print" => pc' = "read" /\ env' = env
          /\ pc' = "done" => pc = "read" /\ form' = alloceof]_vars
    /\ [](pc = "print" => ENABLED repl_print)

\* the call c is a let* call whose implementation made the child
\* environment and returned an Error
LetFailedInChild(c) ==
    /\ c.name = n_let /\ c.ran /\ Len(c.args) = 2
    /\ c.args[1].type \in {"MAL_LIST", "MAL_VECTOR"}
    /\ IsError(c.val)

\* the child environment of the let* call c when its loop over the
\* bindings ended
LetChild(c) == eval_let_loop(allocenvironment(c.before), c.args[1].list, <<>>).env

\* C26: when a let* call returns an Error, the values bound in its child
\* environment have been released: freeing the child leaves none allocated
C26_ErrorPathsRelease ==
    \A i \in 1..Len(calls) :
        LetFailedInChild(calls[i]) => freeenvironment_unreleased(LetChild(calls[i])) = <<>>

\* C27: an Integer is not cut to 32 bits: (+ 1 2) is 3, (+ 2147483647 1)
\* is the Integer printed as 2147483648, and the line 2147483648 reads as
\* the Integer printed as 2147483648
C27_Integer64 ==
    pc = "print" =>
        /\ form = Call2(n_add, Num(1), Num(2)) => result = Num(3)
        /\ form = Call2(n_add, Num(INT_MAX - 1), Num(1)) => result = Num(INT_MAX)
        /\ form = Call2(n_add, Num(INT_MAX), Num(1)) =>
              print(result).out = Int32Digits \o <<"\n">>
        /\ form = parse(Int32Digits) => print(result).out = Int32Digits \o <<"\n">>

\* no scope of the chain e holds two Variables or two Functions of one name
UniqueBindings(e) ==
    \A s \in 1..Len(e) : \A i, j \in 1..Len(e[s]) :
        (e[s][i].name = e[s][j].name /\ e[s][i].type = e[s][j].type) => i = j

\* C28: in the top-level environment and in the environments every call
\* began and ended in, child environments of let* included, each scope
\* holds at most one Variable and at most one Function of a name
C28_OneBindingPerName ==
    /\ UniqueBindings(env)
    /\ UniqueBindings(before)
    /\ \A i \in 1..Len(calls) :
          /\ UniqueBindings(calls[i].before)
          /\ UniqueBindings(calls[i].after)

\* x was bound again at top level where the scope holds the Function + and
\* the Variable +, and x was bound twice by one let*
C28_Witness ==
    /\ pc = "print"
    /\ \/ /\ form = Call2(n_def, x, Num(1))
          /\ FindSymbol(Symbols(before), <<"x">>, "SYM_VARIABLE") # 0
          /\ FindSymbol(Symbols(before), n_add, "SYM_VARIABLE") # 0
          /\ VariableCount(Symbols(env), <<"x">>) = 1
       \/ /\ form = Call2(n_let, L(<<x, Num(1), x, Call2(n_add, x, x)>>), Call2(n_add, x, y))
          /\ Len(calls) = 2
          /\ VariableCount(Symbols(calls[2].before), <<"x">>) = 1
          /\ eval_variable(calls[2].before, x) = Num(2)

\* ------------------------------------------------------------------------
\* Termination of the reader (specification SpecRead)
\* ------------------------------------------------------------------------
\* the sum of the lengths of the tokens
RECURSIVE TokensLength(_)
TokensLength(toks) ==
    IF toks = <<>> THEN 0 ELSE Len(Head(toks)) + TokensLength(Tail(toks))

\* C29: the tokenizer returns tokens of one character or more each, taken
\* from the line, and read_form returns for every line: a node, an Error
\* or nothing, also for the token ^ and the quote tokens
C29_ParsingTerminates ==
    /\ pc \in {"tokens", "node"} =>
          /\ ~tokens.null
          /\ \A i \in 1..Len(tokens.tokens) : Len(tokens.tokens[i]) >= 1
          /\ TokensLength(tokens.tokens) <= Len(line)
    /\ pc = "node" => ~IsAbort(form)

\* ------------------------------------------------------------------------
\* Comparisons (specification Spec)
\* ------------------------------------------------------------------------
ComparisonNames == {n_lt, n_lteq, n_gt, n_gteq}

\* the relation the comparison of that name stands for holds of a and b
Holds(name, a, b) ==
    CASE name = n_lt -> a < b
      [] name = n_lteq -> a <= b
      [] name = n_gt -> a > b
      [] name = n_gteq -> a >= b

\* C30: a comparison given Integers returns True when the relation holds
\* of the first argument and each argument behind it and False when it
\* fails for one of them, so with one argument True; with no argument it
\* returns False; (< 1 3 2) is True
C30_CompareWithFirst ==
    /\ \A i \in 1..Len(calls) :
          (/\ calls[i].name \in ComparisonNames
           /\ calls[i].ran
           /\ \A j \in 1..Len(calls[i].args) : calls[i].args[j].type = "MAL_NUMBER")
          => calls[i].val =
                IF calls[i].args = <<>> THEN allocfalse
                ELSE IF \A j \in 2..Len(calls[i].args) :
                            Holds(calls[i].name, calls[i].args[1].number,
                                  calls[i].args[j].number)
                     THEN alloctrue
                     ELSE allocfalse
    /\ (pc = "print" /\ form = Call3(n_lt, Num(1), Num(3), Num(2))) => result = alloctrue

\* (< 1 3 2) and (> 2 0 1) returned True, (< 2) True and (<) False
C30_Witness ==
    /\ pc = "print"
    /\ \/ form = Call3(n_lt, Num(1), Num(3), Num(2)) /\ result = alloctrue
       \/ form = Call3(n_gt, Num(2), Num(0), Num(1)) /\ result = alloctrue
       \/ form = Call1(n_lt, Num(2)) /\ result = alloctrue
       \/ form = L(<<Sym(n_lt)>>) /\ result = allocfalse

====
